---- MODULE Spec2Model ----
(***************************************************************************)
(* Model of kubernetes-traffic-flow-tests.                                 *)
(*                                                                         *)
(* Spec      : one test instance.  The iperf server thread, the iperf      *)
(*             client thread, the measure_cpu tasks and the measure_power  *)
(*             tasks run as threads that share the start barrier           *)
(*             (ts.clmo_barrier) and the finished flag                     *)
(*             (ts.event_client_finished).  A remote command (run_oc,      *)
(*             run_oc_exec) is a black box: it starts, and later returns   *)
(*             a Result that succeeded or failed.                          *)
(* SpecDescr : ConfigDescriptor over a parsed configuration.               *)
(***************************************************************************)
EXTENDS Integers, Sequences, FiniteSets, TLC

\* ---------------------------------------------------------------- bounds
\* Largest number of loop iterations a measure_power worker is followed for.
MaxIter == 2
\* Largest power reading (Watts) ipmitool reports.
MaxWatts == 1
\* Largest number of remote commands counted per task (history counter).
MaxCalls == 2
\* Largest number of test groups, and of test cases and of connections of a
\* test group; also the largest index given to ConfigDescriptor.
MaxSize == 2

\* ------------------------------------------------------------- constants
NoneVal == "None"

CpuTasks == {"cpu_server", "cpu_client"}
PowerTasks == {"power_server", "power_client"}
ClientTask == "client"
AllTasks == {ClientTask} \cup CpuTasks \cup PowerTasks

VARIABLES
    plugins,          \* plugin names of the connection (ConfConnection.plugins)
    connection_mode,  \* IperfServer.connection_mode
    exec_persistent,  \* IperfServer.exec_persistent
    pc,               \* position of every barrier participant's thread
    arrived,          \* threads that have called clmo_barrier.wait()
    finished,         \* ts.event_client_finished
    setCount,         \* number of event_client_finished.set() calls so far
    expired,          \* the test group's duration has elapsed since the start
    srv_pc,           \* position of the server's exec_thread
    srv_cmds,         \* commands the server thread has issued, in order
    srv_r,            \* what the calls of server(self, cmd) returned, in order
    client_r,         \* Result of the client's run_oc
    cpu_r,            \* Result of each cpu task's run_oc_exec, with its shape
    cpu_out,          \* PluginOutput of each cpu task
    success_result,   \* measure_power locals, per task
    msg,
    total_pwr,
    iteration,
    failed_cmd,
    power_out,        \* PluginOutput of each power task
    ncalls,           \* remote commands started so far, per task
    lateCalls,        \* remote commands started while finished was set, per task
    cmdFailed,        \* a remote command of the task has returned a failure
    nfail,            \* measure_power iterations without a parsed reading, per task
    config_tft,       \* tc.config.tft: the parsed test groups
    d_args,           \* indices given to the last ConfigDescriptor(...) call
    d_err,            \* what that call raised, "ok" if it returned
    descr,            \* the descriptor it returned, <<>> if it raised
    resolved,         \* results of the resolver methods on a descriptor
    gen,              \* loop variables of the running describe_all_* generators
    yielded,          \* index triples the nested iteration has yielded so far
    firstRun,         \* what the iteration yielded before it was restarted
    doc,              \* the nested mapping given to ConfConfig.parse
    parsed,           \* what ConfConfig.parse made of it
    ser,              \* ConfConfig.serialize of the parsed configuration
    reparsed,         \* ConfConfig.parse of the serialized document
    reser,            \* ConfConfig.serialize of the reparsed configuration
    opt_in,           \* arguments of eval_binary_opt_in
    opt_out,          \* what it returned
    gbps_in,          \* handler's test type and raw result given to calculate_gbps
    gbps_out,         \* what calculate_gbps returned or raised
    infos,            \* tftbase._test_case_typ_infos as the test sees it
    infos_ok,         \* outcome of test_test_case_typ_infos
    kube_in,          \* command line, environment, configuration and files
    kube_out,         \* the kubeconfig pair the TestConfig ends up with
    run_in,           \* --check and the outcome of every test group's flows
    run_out,          \* test groups main has run, and its exit code
    tconf,            \* the TestConfig's lock, kubeconfig pair and clients
    callers,          \* threads calling client() or a kubeconfig accessor
    tcp_in,           \* arguments of the simple TCP server or client
    tcp               \* the running simple TCP server or client

confVars == <<plugins, connection_mode, exec_persistent>>
syncVars == <<arrived, finished, setCount, expired>>
srvVars == <<srv_pc, srv_cmds, srv_r>>
cpuVars == <<cpu_r, cpu_out>>
powerVars == <<success_result, msg, total_pwr, iteration, failed_cmd, power_out>>
histVars == <<ncalls, lateCalls, cmdFailed, nfail>>
descrVars == <<config_tft, d_args, d_err, descr>>

instVars == <<confVars, pc, syncVars, srvVars, client_r, cpuVars, powerVars,
              histVars>>

resolveVars == <<resolved>>
walkVars == <<gen, yielded, firstRun>>
parseVars == <<doc, parsed, ser, reparsed, reser>>
pureVars == <<opt_in, opt_out, gbps_in, gbps_out>>
infoVars == <<infos, infos_ok>>
kubeVars == <<kube_in, kube_out>>
runVars == <<run_in, run_out>>
clientVars == <<tconf, callers>>
tcpVars == <<tcp_in, tcp>>
extVars == <<resolveVars, walkVars, parseVars, pureVars, infoVars, kubeVars,
             runVars, clientVars, tcpVars>>

vars == <<instVars, descrVars, extVars>>

\* ------------------------------------------------------- the participants
\* The tasks a plugin contributes: one per role (PluginMeasureCpu._enable,
\* PluginMeasurePower._enable).
PluginTasks(name) ==
    IF name = "measure_cpu" THEN CpuTasks
    ELSE IF name = "measure_power" THEN PowerTasks
    ELSE {}

\* The plugins of the connection under test: none, or one of the two.
PluginLists == {{}, {"measure_cpu"}, {"measure_power"}}

\* The threads that wait on the start barrier: the client and the plugin tasks.
Tasks == {ClientTask} \cup UNION {PluginTasks(n) : n \in plugins}

\* Number of parties of ts.clmo_barrier: every participant that waits on it.
Parties == Cardinality(Tasks)

\* threading.Barrier: wait() returns once all parties have called it.
BarrierReleased == arrived = Parties

\* The orchestrator sets the server up (IperfServer.setup returns) before the
\* client and the plugin tasks are run.
ServerIsSetUp == srv_pc # "init"

\* The orchestrator stops the server once the client thread has finished.
StopPhase == pc[ClientTask] = "done"

\* One more remote command of task t starts: the history counters.
CountCall(t) ==
    /\ ncalls' = [ncalls EXCEPT ![t] = IF @ < MaxCalls THEN @ + 1 ELSE @]
    /\ lateCalls' = [lateCalls EXCEPT
                        ![t] = IF finished /\ @ < MaxCalls THEN @ + 1 ELSE @]
    /\ UNCHANGED <<cmdFailed, nfail>>

\* A remote command of task t returns: the history flag.
CountReturn(t, success) ==
    /\ cmdFailed' = [cmdFailed EXCEPT ![t] = @ \/ ~success]
    /\ UNCHANGED <<ncalls, lateCalls>>

\* ------------------------------------------------------------ the server
\* Mutant: the thread function runs its command whether or not the server
\* is persistent.
ServerIssues_IgnoresPersistent(cmd) ==
    IF connection_mode = "EXTERNAL_IP"
    THEN <<[via |-> "lh.run", cmd |-> cmd]>>
    ELSE <<[via |-> "run_oc", cmd |-> cmd]>>

\* What the thread function server(self, cmd) of IperfServer.setup issues.
ServerIssues(cmd) ==
    IF connection_mode = "EXTERNAL_IP"
    THEN <<[via |-> "lh.run", cmd |-> cmd]>>
    ELSE IF exec_persistent
         THEN <<>>
         ELSE <<[via |-> "run_oc", cmd |-> cmd]>>

\* What server(self, cmd) returns without a remote command: the fixed Result
\* of a persistent server; <<>> stands for the result of the remote command.
ServerReturns(cmd) ==
    IF ServerIssues(cmd) = <<>>
    THEN <<[out |-> "Server is persistent.", err |-> "", returncode |-> 0]>>
    ELSE <<>>

\* IperfServer.setup: the command of the server thread.
IperfServerCmd ==
    IF connection_mode = "EXTERNAL_IP"
    THEN "podman run iperf3 -s -p --one-off --json"
    ELSE "exec -- iperf3 -s -p --one-off --json"

\* IperfServer.setup: the command of the cleanup action.
IperfCleanupCmd ==
    IF connection_mode = "EXTERNAL_IP"
    THEN "podman rm --force"
    ELSE "exec -t -- killall iperf3"

\* IperfServer.setup: exec_thread.start(), and the thread calls server(cmd).
ServerSetup ==
    /\ srv_pc = "init"
    /\ srv_cmds' = srv_cmds \o ServerIssues(IperfServerCmd)
    /\ srv_r' = Append(srv_r, ServerReturns(IperfServerCmd))
    /\ srv_pc' = "started"
    /\ UNCHANGED <<extVars, descrVars, confVars, syncVars, cpuVars,
                   powerVars, histVars, pc, client_r>>

\* The cleanup action of exec_thread: server(self, cleanup_cmd).
ServerCleanup ==
    /\ srv_pc = "started"
    /\ StopPhase
    /\ srv_cmds' = srv_cmds \o ServerIssues(IperfCleanupCmd)
    /\ srv_r' = Append(srv_r, ServerReturns(IperfCleanupCmd))
    /\ srv_pc' = "cleaned"
    /\ UNCHANGED <<extVars, descrVars, confVars, syncVars, cpuVars,
                   powerVars, histVars, pc, client_r>>

\* ------------------------------------------------------------ the barrier
\* t calls ts.clmo_barrier.wait() and blocks in it.
BarrierWait(t) ==
    /\ t \in Tasks
    /\ pc[t] = "init"
    /\ ServerIsSetUp
    /\ pc' = [pc EXCEPT ![t] = "barrier"]
    /\ arrived' = arrived + 1
    /\ UNCHANGED <<extVars, descrVars, confVars, srvVars, cpuVars, powerVars,
                   histVars, finished, setCount, expired, client_r>>

\* ------------------------------------------------------------ the client
\* Mutant: wait() returns although not every party has arrived.
ClientRunOc_NoBarrier ==
    /\ ClientTask \in Tasks
    /\ pc[ClientTask] = "barrier"
    /\ pc' = [pc EXCEPT ![ClientTask] = "run_oc"]
    /\ CountCall(ClientTask)
    /\ UNCHANGED <<extVars, descrVars, confVars, syncVars, srvVars,
                   cpuVars, powerVars, client_r>>

\* Mutant: the flag is set before run_oc(cmd) is called, and again after it.
ClientRunOc_SetsFirst ==
    /\ ClientTask \in Tasks
    /\ pc[ClientTask] = "barrier"
    /\ BarrierReleased
    /\ pc' = [pc EXCEPT ![ClientTask] = "run_oc"]
    /\ finished' = TRUE
    /\ setCount' = setCount + 1
    /\ CountCall(ClientTask)
    /\ UNCHANGED <<extVars, descrVars, confVars, srvVars, cpuVars, powerVars,
                   arrived, expired, client_r>>

\* client(): clmo_barrier.wait() returns and run_oc(cmd) starts.
ClientRunOc ==
    /\ ClientTask \in Tasks
    /\ pc[ClientTask] = "barrier"
    /\ BarrierReleased
    /\ pc' = [pc EXCEPT ![ClientTask] = "run_oc"]
    /\ CountCall(ClientTask)
    /\ UNCHANGED <<extVars, descrVars, confVars, syncVars, srvVars,
                   cpuVars, powerVars, client_r>>

\* client(): run_oc(cmd) returns r.
ClientReturn(ok) ==
    /\ pc[ClientTask] = "run_oc"
    /\ client_r' = [success |-> ok]
    /\ pc' = [pc EXCEPT ![ClientTask] = "set"]
    /\ CountReturn(ClientTask, ok)
    /\ UNCHANGED nfail
    /\ UNCHANGED <<extVars, descrVars, confVars, syncVars, srvVars,
                   cpuVars, powerVars>>

\* client(): event_client_finished.set(); return r.
ClientSet ==
    /\ pc[ClientTask] = "set"
    /\ finished' = TRUE
    /\ setCount' = setCount + 1
    /\ pc' = [pc EXCEPT ![ClientTask] = "done"]
    /\ UNCHANGED <<extVars, descrVars, confVars, srvVars, cpuVars, powerVars,
                   histVars, arrived, expired, client_r>>

\* ------------------------------------------------------ measure_cpu task
\* What jc.parse("mpstat", r.out)[0] gives for the output of a command:
\* "unparseable" (jc.parse or lst[0] raises), "no_idle" (a record without
\* percent_idle), "idle" (a record with percent_idle).
CpuShapes == {"unparseable", "no_idle", "idle"}

\* A Result: the command failed (its output is not looked at), or succeeded
\* with an output of one of the shapes.
CpuResults == {[success |-> FALSE, shape |-> "unparseable"]}
                  \cup [success : {TRUE}, shape : CpuShapes]

\* Mutant: the parsed record is not checked for percent_idle.
CpuClassify_NoShapeCheck(r) ==
    LET s1 == r.success
        m1 == IF ~r.success THEN "debug_msg" ELSE NoneVal
        s2 == s1 /\ r.shape # "unparseable"
        m2 == IF s1 /\ ~s2 THEN "cannot be parsed" ELSE m1
    IN  [success |-> s2,
         msg |-> m2,
         command |-> "mpstat",
         result |-> (IF s2 /\ r.shape = "idle" THEN {"percent_idle"} ELSE {})
                        \cup {"cmd"}]

\* _thread_action of TaskMeasureCPU, from the returned r to the PluginOutput.
CpuClassify(r) ==
    LET s1 == r.success
        m1 == IF ~r.success THEN "debug_msg" ELSE NoneVal
        s2 == s1 /\ r.shape # "unparseable"
        m2 == IF s1 /\ ~s2 THEN "cannot be parsed" ELSE m1
        s3 == s2 /\ r.shape = "idle"
        m3 == IF s2 /\ ~s3 THEN "contains unexpected data" ELSE m2
    IN  [success |-> s3,
         msg |-> m3,
         command |-> "mpstat",
         result |-> (IF s3 THEN {"percent_idle"} ELSE {}) \cup {"cmd"}]

\* _thread_action: clmo_barrier.wait() returns and run_oc_exec(cmd) starts.
CpuRunOcExec(c) ==
    /\ c \in Tasks \cap CpuTasks
    /\ pc[c] = "barrier"
    /\ BarrierReleased
    /\ pc' = [pc EXCEPT ![c] = "run_oc_exec"]
    /\ CountCall(c)
    /\ UNCHANGED <<extVars, descrVars, confVars, syncVars, srvVars,
                   cpuVars, powerVars, client_r>>

\* Mutant: a failed command is run again.
CpuReturn_Retry(c, r) ==
    /\ c \in CpuTasks
    /\ pc[c] = "run_oc_exec"
    /\ cpu_r' = [cpu_r EXCEPT ![c] = r]
    /\ IF ~r.success /\ ncalls[c] < MaxCalls
       THEN /\ pc' = [pc EXCEPT ![c] = "barrier"]
            /\ UNCHANGED cpu_out
       ELSE /\ pc' = [pc EXCEPT ![c] = "done"]
            /\ cpu_out' = [cpu_out EXCEPT ![c] = CpuClassify(r)]
    /\ CountReturn(c, r.success)
    /\ UNCHANGED nfail
    /\ UNCHANGED <<extVars, descrVars, confVars, syncVars, srvVars,
                   powerVars, client_r>>

\* _thread_action: run_oc_exec returns r; the output record is built and
\* returned.
CpuReturn(c, r) ==
    /\ c \in CpuTasks
    /\ pc[c] = "run_oc_exec"
    /\ cpu_r' = [cpu_r EXCEPT ![c] = r]
    /\ cpu_out' = [cpu_out EXCEPT ![c] = CpuClassify(r)]
    /\ pc' = [pc EXCEPT ![c] = "done"]
    /\ CountReturn(c, r.success)
    /\ UNCHANGED nfail
    /\ UNCHANGED <<extVars, descrVars, confVars, syncVars, srvVars,
                   powerVars, client_r>>

\* ---------------------------------------------------- measure_power task
\* A line of ipmitool's output: <<w>> for "Instantaneous power reading: w
\* Watts", <<>> for any other line.
PowerLines == {<<>>} \cup {<<w>> : w \in 1..MaxWatts}

\* The outputs r.out of a command that succeeded: one line, or a line
\* without a reading followed by a line with one.
PowerOutputs == {<<l>> : l \in PowerLines}
                    \cup {<< <<>>, <<w>> >> : w \in 1..MaxWatts}

\* A Result: the command failed (no output), or succeeded with an output.
PowerResults == {[success |-> FALSE, out |-> <<>>]}
                    \cup [success : {TRUE}, out : PowerOutputs]

\* _extract: the reading of the first matching line, <<>> for None.
RECURSIVE _extract(_)
_extract(out) ==
    IF out = <<>> THEN <<>>
    ELSE IF Head(out) # <<>> THEN Head(out)
    ELSE _extract(Tail(out))

\* Mutant: a do-while loop, the flag is not looked at before iteration 1.
LoopCondition_AtLeastOnce(p) == iteration[p] = 0 \/ ~finished

\* Mutant: the flag is never looked at.
LoopCondition_Stale(p) == TRUE

\* Mutant: the loop also ends when the duration has elapsed.
LoopCondition_Deadline(p) == ~finished /\ ~expired

\* The loop condition: not event_client_finished.is_set().
LoopCondition(p) == ~finished

\* _thread_action: clmo_barrier.wait() returns; the locals are initialised.
PowerStart(p) ==
    /\ p \in Tasks \cap PowerTasks
    /\ pc[p] = "barrier"
    /\ BarrierReleased
    /\ pc' = [pc EXCEPT ![p] = "check"]
    /\ success_result' = [success_result EXCEPT ![p] = TRUE]
    /\ msg' = [msg EXCEPT ![p] = NoneVal]
    /\ total_pwr' = [total_pwr EXCEPT ![p] = 0]
    /\ iteration' = [iteration EXCEPT ![p] = 0]
    /\ failed_cmd' = [failed_cmd EXCEPT ![p] = <<>>]
    /\ UNCHANGED <<extVars, descrVars, confVars, syncVars, srvVars,
                   cpuVars, histVars, client_r, power_out>>

\* The loop condition is evaluated: the body is entered, or the loop ends.
\* (Iterations beyond MaxIter are not followed.)
PowerCheck(p) ==
    /\ p \in PowerTasks
    /\ pc[p] = "check"
    /\ IF LoopCondition(p)
       THEN /\ iteration[p] < MaxIter
            /\ pc' = [pc EXCEPT ![p] = "body"]
       ELSE pc' = [pc EXCEPT ![p] = "aggregate"]
    /\ UNCHANGED <<extVars, descrVars, confVars, syncVars, srvVars,
                   cpuVars, powerVars, histVars, client_r>>

\* The loop body: run_oc_exec(cmd) starts.
PowerRunOcExec(p) ==
    /\ p \in PowerTasks
    /\ pc[p] = "body"
    /\ pc' = [pc EXCEPT ![p] = "run_oc_exec"]
    /\ CountCall(p)
    /\ UNCHANGED <<extVars, descrVars, confVars, syncVars, srvVars,
                   cpuVars, powerVars, client_r>>

\* An iteration of task p ends with result r: the history counter of the
\* iterations whose command failed or whose output has no power reading.
CountIteration(p, r) ==
    nfail' = [nfail EXCEPT
                 ![p] = IF ~r.success \/ _extract(r.out) = <<>> THEN @ + 1 ELSE @]

\* Mutant: every failing iteration overwrites the message and failed_cmd.
PowerReturn_LastWins(p, r) ==
    /\ p \in PowerTasks
    /\ pc[p] = "run_oc_exec"
    /\ LET failure == ~r.success \/ _extract(r.out) = <<>>
           first == failure
       IN  /\ success_result' = [success_result EXCEPT
                                    ![p] = IF first THEN FALSE ELSE @]
           /\ failed_cmd' = [failed_cmd EXCEPT ![p] = IF first THEN <<r>> ELSE @]
           /\ msg' = [msg EXCEPT
                         ![p] = IF ~first THEN @
                                ELSE IF ~r.success
                                     THEN "Failed running ipmitool command"
                                     ELSE "Failed to parse ipmitool output"]
           /\ total_pwr' = [total_pwr EXCEPT
                               ![p] = IF failure THEN @
                                      ELSE @ + _extract(r.out)[1]]
    /\ iteration' = [iteration EXCEPT ![p] = @ + 1]
    /\ pc' = [pc EXCEPT ![p] = "check"]
    /\ CountReturn(p, r.success)
    /\ CountIteration(p, r)
    /\ UNCHANGED <<extVars, descrVars, confVars, syncVars, srvVars,
                   cpuVars, client_r, power_out>>

\* The loop body: run_oc_exec returns r; r is classified, iteration is
\* counted, and the worker sleeps 0.2 s before the next check.
PowerReturn(p, r) ==
    /\ p \in PowerTasks
    /\ pc[p] = "run_oc_exec"
    /\ LET failure == ~r.success \/ _extract(r.out) = <<>>
           first == failure /\ success_result[p]
       IN  /\ success_result' = [success_result EXCEPT
                                    ![p] = IF first THEN FALSE ELSE @]
           /\ failed_cmd' = [failed_cmd EXCEPT ![p] = IF first THEN <<r>> ELSE @]
           /\ msg' = [msg EXCEPT
                         ![p] = IF ~first THEN @
                                ELSE IF ~r.success
                                     THEN "Failed running ipmitool command"
                                     ELSE "Failed to parse ipmitool output"]
           /\ total_pwr' = [total_pwr EXCEPT
                               ![p] = IF failure THEN @
                                      ELSE @ + _extract(r.out)[1]]
    /\ iteration' = [iteration EXCEPT ![p] = @ + 1]
    /\ pc' = [pc EXCEPT ![p] = "check"]
    /\ CountReturn(p, r.success)
    /\ CountIteration(p, r)
    /\ UNCHANGED <<extVars, descrVars, confVars, syncVars, srvVars,
                   cpuVars, client_r, power_out>>

\* After the loop: total_pwr/iteration (ZeroDivisionError when iteration is
\* 0) and the PluginOutput. measure_power is the quotient <<total, n>>.
PowerAggregate(p) ==
    /\ p \in PowerTasks
    /\ pc[p] = "aggregate"
    /\ IF iteration[p] = 0
       THEN /\ pc' = [pc EXCEPT ![p] = "raised"]
            /\ UNCHANGED power_out
       ELSE /\ pc' = [pc EXCEPT ![p] = "done"]
            /\ power_out' = [power_out EXCEPT
                   ![p] = <<[success |-> success_result[p],
                             msg |-> msg[p],
                             command |-> "ipmitool dcmi power reading",
                             failed_cmd |-> failed_cmd[p],
                             measure_power |-> <<total_pwr[p], iteration[p]>>]>>]
    /\ UNCHANGED <<extVars, descrVars, confVars, syncVars, srvVars, cpuVars, histVars,
                   client_r, success_result, msg, total_pwr, iteration, failed_cmd>>

\* ---------------------------------------------------------------- time
\* The test group's duration elapses, some time after the client's command
\* was started.
Expire ==
    /\ ncalls[ClientTask] > 0
    /\ ~expired
    /\ expired' = TRUE
    /\ UNCHANGED <<extVars, descrVars, confVars, srvVars, cpuVars, powerVars, histVars,
                   pc, arrived, finished, setCount, client_r>>

\* ------------------------------------------------------- specification
\* The connection under test: its plugins; a server that is started per
\* test (not persistent) in a pod of the cluster.
InitConf ==
    /\ plugins \in PluginLists
    /\ connection_mode = "CLUSTER_IP"
    /\ exec_persistent = FALSE

\* The state of a test instance whose tasks have been created and not run.
InitInstance ==
    /\ pc = [t \in AllTasks |-> "init"]
    /\ arrived = 0
    /\ finished = FALSE
    /\ setCount = 0
    /\ expired = FALSE
    /\ srv_pc = "init"
    /\ srv_cmds = <<>>
    /\ srv_r = <<>>
    /\ client_r = <<>>
    /\ cpu_r = [c \in CpuTasks |-> <<>>]
    /\ cpu_out = [c \in CpuTasks |-> <<>>]
    /\ success_result = [p \in PowerTasks |-> TRUE]
    /\ msg = [p \in PowerTasks |-> NoneVal]
    /\ total_pwr = [p \in PowerTasks |-> 0]
    /\ iteration = [p \in PowerTasks |-> 0]
    /\ failed_cmd = [p \in PowerTasks |-> <<>>]
    /\ power_out = [p \in PowerTasks |-> <<>>]
    /\ ncalls = [t \in AllTasks |-> 0]
    /\ lateCalls = [t \in AllTasks |-> 0]
    /\ cmdFailed = [t \in AllTasks |-> FALSE]
    /\ nfail = [t \in AllTasks |-> 0]

\* ------------------------------------------------------ ConfigDescriptor
\* A parsed test group: its test cases (TestCaseType values) and its
\* connections (by name), both non-empty.
TestGroups ==
    [test_cases : {[k \in 1..n |-> k] : n \in 1..MaxSize},
     connections : {[k \in 1..n |-> k] : n \in 1..MaxSize}]

\* tc.config.tft of a parsed configuration: a non-empty list of test groups.
Configs == UNION {[1..n -> TestGroups] : n \in 1..MaxSize}

\* Python's seq[i]: i counts from 0, a negative i counts from the end.
PyIndex(seq, i) == IF i >= 0 THEN seq[i + 1] ELSE seq[Len(seq) + i + 1]

\* Mutant: the range checks compare with > instead of >=.
_post_check_OffByOne(tft, tft_idx, test_cases_idx, connections_idx) ==
    IF tft_idx < -1 \/ tft_idx > Len(tft)
    THEN "tft_idx out of range"
    ELSE IF test_cases_idx < -1
    THEN "test_cases_idx out of range"
    ELSE IF test_cases_idx >= 0 /\ tft_idx < 0
    THEN "test_cases_idx requires tft_idx"
    ELSE IF test_cases_idx >= 0 /\ tft_idx < Len(tft)
            /\ test_cases_idx > Len(PyIndex(tft, tft_idx).test_cases)
    THEN "test_cases_idx out or range"
    ELSE IF connections_idx < -1
    THEN "connections_idx out of range"
    ELSE IF connections_idx >= 0 /\ tft_idx < 0
    THEN "connections_idx requires tft_idx"
    ELSE IF connections_idx >= 0 /\ tft_idx < Len(tft)
            /\ connections_idx > Len(PyIndex(tft, tft_idx).connections)
    THEN "connections_idx out or range"
    ELSE "ok"

\* Mutant: connections_idx is not checked for requiring tft_idx.
_post_check_NoRequires(tft, tft_idx, test_cases_idx, connections_idx) ==
    IF tft_idx < -1 \/ tft_idx >= Len(tft)
    THEN "tft_idx out of range"
    ELSE IF test_cases_idx < -1
    THEN "test_cases_idx out of range"
    ELSE IF test_cases_idx >= 0 /\ tft_idx < 0
    THEN "test_cases_idx requires tft_idx"
    ELSE IF test_cases_idx >= 0
            /\ test_cases_idx >= Len(PyIndex(tft, tft_idx).test_cases)
    THEN "test_cases_idx out or range"
    ELSE IF connections_idx < -1
    THEN "connections_idx out of range"
    ELSE IF connections_idx >= 0
            /\ connections_idx >= Len(PyIndex(tft, tft_idx).connections)
    THEN "connections_idx out or range"
    ELSE "ok"

\* ConfigDescriptor._post_check: the error it raises, "ok" if none.
_post_check(tft, tft_idx, test_cases_idx, connections_idx) ==
    IF tft_idx < -1 \/ tft_idx >= Len(tft)
    THEN "tft_idx out of range"
    ELSE IF test_cases_idx < -1
    THEN "test_cases_idx out of range"
    ELSE IF test_cases_idx >= 0 /\ tft_idx < 0
    THEN "test_cases_idx requires tft_idx"
    ELSE IF test_cases_idx >= 0
            /\ test_cases_idx >= Len(PyIndex(tft, tft_idx).test_cases)
    THEN "test_cases_idx out or range"
    ELSE IF connections_idx < -1
    THEN "connections_idx out of range"
    ELSE IF connections_idx >= 0 /\ tft_idx < 0
    THEN "connections_idx requires tft_idx"
    ELSE IF connections_idx >= 0
            /\ connections_idx >= Len(PyIndex(tft, tft_idx).connections)
    THEN "connections_idx out or range"
    ELSE "ok"

\* ConfigDescriptor(tc, tft_idx=.., test_cases_idx=.., connections_idx=..):
\* the dataclass is built and _post_check runs on it.
NewDescriptor(tft_idx, test_cases_idx, connections_idx) ==
    LET e == _post_check(config_tft, tft_idx, test_cases_idx, connections_idx)
    IN  /\ d_args' = <<tft_idx, test_cases_idx, connections_idx>>
        /\ d_err' = e
        /\ descr' = IF e = "ok"
                    THEN [tft_idx |-> tft_idx,
                          test_cases_idx |-> test_cases_idx,
                          connections_idx |-> connections_idx]
                    ELSE <<>>
        /\ UNCHANGED <<config_tft, instVars, parseVars, pureVars, infoVars,
                       kubeVars,
                   runVars, clientVars, tcpVars>>

\* The indices a caller may give.
IndexInputs == (0 - 2)..MaxSize

\* The root descriptor ConfigDescriptor(tc): no index selected.
RootDescriptor ==
    [tft_idx |-> 0 - 1, test_cases_idx |-> 0 - 1, connections_idx |-> 0 - 1]

\* A caller constructs a descriptor from indices of its choice. (A
\* construction does not depend on the descriptors built before: it is
\* followed from the root descriptor, to which any state can return.)
Construct(tft_idx, test_cases_idx, connections_idx) ==
    /\ \/ descr = RootDescriptor
       \/ <<tft_idx, test_cases_idx, connections_idx>> = <<0 - 1, 0 - 1, 0 - 1>>
    /\ NewDescriptor(tft_idx, test_cases_idx, connections_idx)
    /\ UNCHANGED <<resolveVars, walkVars>>

\* get_tft: usable only with tft_idx set.
get_tft_ok(d) == d.tft_idx >= 0

\* describe_all_tft yields its i-th descriptor.
describe_all_tft(i) ==
    /\ descr # <<>>
    /\ i \in 0..(Len(config_tft) - 1)
    /\ NewDescriptor(i, 0 - 1, 0 - 1)
    /\ UNCHANGED <<resolveVars, walkVars>>

\* describe_all_test_cases yields its i-th descriptor.
describe_all_test_cases(i) ==
    /\ descr # <<>>
    /\ get_tft_ok(descr)
    /\ i \in 0..(Len(PyIndex(config_tft, descr.tft_idx).test_cases) - 1)
    /\ NewDescriptor(descr.tft_idx, i, descr.connections_idx)
    /\ UNCHANGED <<resolveVars, walkVars>>

\* describe_all_connections yields its i-th descriptor.
describe_all_connections(i) ==
    /\ descr # <<>>
    /\ get_tft_ok(descr)
    /\ i \in 0..(Len(PyIndex(config_tft, descr.tft_idx).connections) - 1)
    /\ NewDescriptor(descr.tft_idx, descr.test_cases_idx, i)
    /\ UNCHANGED <<resolveVars, walkVars>>

\* The root descriptor ConfigDescriptor(tc) of a parsed configuration.
InitDescr ==
    /\ config_tft \in Configs
    /\ d_args = <<0 - 1, 0 - 1, 0 - 1>>
    /\ d_err = "ok"
    /\ descr = RootDescriptor

\* ----------------------------------------------------- specifications
\* Nothing has been resolved, iterated, parsed, evaluated or looked up yet.
InitResolve == resolved = <<>>
InitWalk == gen = <<>> /\ yielded = <<>> /\ firstRun = <<>>
InitParse ==
    doc = <<>> /\ parsed = <<>> /\ ser = <<>> /\ reparsed = <<>> /\ reser = <<>>
InitPure == opt_in = <<>> /\ opt_out = <<>> /\ gbps_in = <<>> /\ gbps_out = <<>>
InitInfos == infos = <<>> /\ infos_ok = <<>>
InitKube == kube_in = <<>> /\ kube_out = <<>>
InitRun == run_in = <<>> /\ run_out = <<>>
InitClient == tconf = <<>> /\ callers = <<>>
InitTcp == tcp_in = <<>> /\ tcp = <<>>

\* One test instance of one connection.
Init ==
    /\ InitConf
    /\ InitInstance
    /\ config_tft = <<[test_cases |-> <<1>>, connections |-> <<1>>]>>
    /\ d_args = <<0, 0, 0>>
    /\ d_err = "ok"
    /\ descr = [tft_idx |-> 0, test_cases_idx |-> 0, connections_idx |-> 0]
    /\ InitResolve /\ InitWalk /\ InitParse /\ InitPure /\ InitInfos /\ InitKube
    /\ InitRun /\ InitClient /\ InitTcp

Next ==
    \/ ServerSetup
    \/ ServerCleanup
    \/ \E t \in AllTasks : BarrierWait(t)
    \/ ClientRunOc
    \/ \E ok \in BOOLEAN : ClientReturn(ok)
    \/ ClientSet
    \/ \E c \in CpuTasks : CpuRunOcExec(c)
    \/ \E c \in CpuTasks, r \in CpuResults : CpuReturn(c, r)
    \/ \E p \in PowerTasks : PowerStart(p)
    \/ \E p \in PowerTasks : PowerCheck(p)
    \/ \E p \in PowerTasks : PowerRunOcExec(p)
    \/ \E p \in PowerTasks, r \in PowerResults : PowerReturn(p, r)
    \/ \E p \in PowerTasks : PowerAggregate(p)
    \/ Expire

Spec == Init /\ [][Next]_vars

\* ------------------------------------------------- the server's commands
\* The connection modes of a server, and whether it is persistent
\* (ts.conf_server.persistent); the tasks are the client's and measure_cpu's.
InitServer ==
    /\ plugins \in {{}, {"measure_cpu"}}
    /\ connection_mode \in {"POD_IP", "CLUSTER_IP", "NODE_PORT_IP", "EXTERNAL_IP"}
    /\ exec_persistent \in BOOLEAN
    /\ InitInstance
    /\ config_tft = <<[test_cases |-> <<1>>, connections |-> <<1>>]>>
    /\ d_args = <<0, 0, 0>>
    /\ d_err = "ok"
    /\ descr = [tft_idx |-> 0, test_cases_idx |-> 0, connections_idx |-> 0]
    /\ InitResolve /\ InitWalk /\ InitParse /\ InitPure /\ InitInfos /\ InitKube
    /\ InitRun /\ InitClient /\ InitTcp

NextServer ==
    \/ ServerSetup
    \/ ServerCleanup
    \/ \E t \in AllTasks : BarrierWait(t)
    \/ ClientRunOc
    \/ \E ok \in BOOLEAN : ClientReturn(ok)
    \/ ClientSet
    \/ \E c \in CpuTasks : CpuRunOcExec(c)
    \/ \E c \in CpuTasks, r \in CpuResults : CpuReturn(c, r)
    \/ Expire

SpecServer == InitServer /\ [][NextServer]_vars

\* ------------------------------------------------------ fair scheduling
\* A connection with the measure_power plugin: the client and the two
\* measure_power workers wait on the barrier.
InitFair ==
    /\ plugins = {"measure_power"}
    /\ connection_mode = "CLUSTER_IP"
    /\ exec_persistent = FALSE
    /\ InitInstance
    /\ config_tft = <<[test_cases |-> <<1>>, connections |-> <<1>>]>>
    /\ d_args = <<0, 0, 0>>
    /\ d_err = "ok"
    /\ descr = [tft_idx |-> 0, test_cases_idx |-> 0, connections_idx |-> 0]
    /\ InitResolve /\ InitWalk /\ InitParse /\ InitPure /\ InitInfos /\ InitKube
    /\ InitRun /\ InitClient /\ InitTcp

NextFair ==
    \/ ServerSetup
    \/ ServerCleanup
    \/ \E t \in AllTasks : BarrierWait(t)
    \/ ClientRunOc
    \/ \E ok \in BOOLEAN : ClientReturn(ok)
    \/ ClientSet
    \/ \E p \in PowerTasks : PowerStart(p)
    \/ \E p \in PowerTasks : PowerCheck(p)
    \/ \E p \in PowerTasks : PowerRunOcExec(p)
    \/ \E p \in PowerTasks, r \in PowerResults : PowerReturn(p, r)
    \/ \E p \in PowerTasks : PowerAggregate(p)
    \/ Expire

\* Every thread that can take a step takes it eventually (the threads are
\* scheduled by the operating system), every participant reaches the
\* barrier, and every remote call returns.
Fairness ==
    /\ WF_vars(ServerSetup)
    /\ WF_vars(ServerCleanup)
    /\ \A t \in AllTasks : WF_vars(BarrierWait(t))
    /\ WF_vars(ClientRunOc)
    /\ WF_vars(\E ok \in BOOLEAN : ClientReturn(ok))
    /\ WF_vars(ClientSet)
    /\ \A p \in PowerTasks :
          /\ WF_vars(PowerStart(p))
          /\ WF_vars(PowerCheck(p))
          /\ WF_vars(PowerRunOcExec(p))
          /\ WF_vars(\E r \in PowerResults : PowerReturn(p, r))
          /\ WF_vars(PowerAggregate(p))

SpecFair == InitFair /\ [][NextFair]_vars /\ Fairness

\* Descriptors over a parsed configuration, before any test instance runs.
InitDescriptors ==
    /\ plugins = {}
    /\ connection_mode = "CLUSTER_IP"
    /\ exec_persistent = FALSE
    /\ InitInstance
    /\ InitDescr
    /\ InitResolve /\ InitWalk /\ InitParse /\ InitPure /\ InitInfos /\ InitKube
    /\ InitRun /\ InitClient /\ InitTcp

NextDescr ==
    \/ \E t \in IndexInputs, tc \in IndexInputs, cn \in IndexInputs :
          Construct(t, tc, cn)
    \/ \E i \in 0..MaxSize : describe_all_tft(i)
    \/ \E i \in 0..MaxSize : describe_all_test_cases(i)
    \/ \E i \in 0..MaxSize : describe_all_connections(i)

SpecDescr == InitDescriptors /\ [][NextDescr]_vars

\* ------------------------------------------------------------ resolvers
\* Test groups per configuration in the resolver specification.
MaxGroups == 1

\* The server (or client) tuple of a parsed connection: ConfConnection.parse
\* rejects more than one entry and accepts a missing or empty list.
NodeTuples(kind, k) == {<<>>, <<[name |-> <<kind, k>>, yamlidx |-> 0]>>}

\* A parsed connection at position k of its list.
ParsedConnections(k) ==
    [yamlidx : {k - 1},
     server : NodeTuples("server", k),
     client : NodeTuples("client", k)]

\* The non-empty lists of parsed connections.
ConnectionLists ==
    UNION {{c \in [1..n -> UNION {ParsedConnections(k) : k \in 1..n}] :
               \A k \in 1..n : c[k].yamlidx = k - 1} : n \in 1..MaxSize}

\* tc.config.tft with the nodes of every connection.
ResolveConfigs ==
    UNION {{t \in [1..n -> [yamlidx : 0..(n - 1),
                            test_cases : {[k \in 1..m |-> k] : m \in 1..MaxSize},
                            connections : ConnectionLists]] :
               \A g \in 1..n : t[g].yamlidx = g - 1} : n \in 1..MaxGroups}

\* What a resolver gives: the error it raises ("" if none) and its value.
Raised(e) == [err |-> e, val |-> <<>>]
Returned(v) == [err |-> "", val |-> <<v>>]

\* ConfigDescriptor.get_tft
get_tft(d) ==
    IF d.tft_idx < 0
    THEN Raised("No tft_idx set")
    ELSE Returned(PyIndex(config_tft, d.tft_idx))

\* ConfigDescriptor.get_test_case
get_test_case(d) ==
    IF d.test_cases_idx < 0
    THEN Raised("No test_cases_idx set")
    ELSE IF get_tft(d).err # ""
    THEN get_tft(d)
    ELSE Returned(PyIndex(get_tft(d).val[1].test_cases, d.test_cases_idx))

\* ConfigDescriptor.get_connection
get_connection(d) ==
    IF d.connections_idx < 0
    THEN Raised("No connections_idx set")
    ELSE IF get_tft(d).err # ""
    THEN get_tft(d)
    ELSE Returned(PyIndex(get_tft(d).val[1].connections, d.connections_idx))

\* ConfigDescriptor.get_server
get_server(d) ==
    LET c == get_connection(d)
    IN  IF c.err # ""
        THEN Raised(c.err)
        ELSE IF Len(c.val[1].server) # 1
        THEN Raised("AssertionError")
        ELSE Returned(c.val[1].server[1])

\* ConfigDescriptor.get_client
get_client(d) ==
    LET c == get_connection(d)
    IN  IF c.err # ""
        THEN Raised(c.err)
        ELSE IF Len(c.val[1].client) # 1
        THEN Raised("AssertionError")
        ELSE Returned(c.val[1].client[1])

\* A caller applies the five resolvers to the descriptor it holds.
Resolve ==
    /\ descr # <<>>
    /\ resolved' = [of |-> descr,
                    get_tft |-> get_tft(descr),
                    get_test_case |-> get_test_case(descr),
                    get_connection |-> get_connection(descr),
                    get_server |-> get_server(descr),
                    get_client |-> get_client(descr)]
    /\ UNCHANGED <<instVars, descrVars, walkVars, parseVars, pureVars,
                   infoVars, kubeVars,
                   runVars, clientVars, tcpVars>>

\* Descriptors over a parsed configuration with its nodes.
InitResolvers ==
    /\ plugins = {}
    /\ connection_mode = "CLUSTER_IP"
    /\ exec_persistent = FALSE
    /\ InitInstance
    /\ config_tft \in ResolveConfigs
    /\ d_args = <<0 - 1, 0 - 1, 0 - 1>>
    /\ d_err = "ok"
    /\ descr = RootDescriptor
    /\ InitResolve /\ InitWalk /\ InitParse /\ InitPure /\ InitInfos /\ InitKube
    /\ InitRun /\ InitClient /\ InitTcp

NextResolve ==
    \/ \E i \in 0..MaxSize : describe_all_tft(i)
    \/ \E i \in 0..MaxSize : describe_all_test_cases(i)
    \/ \E i \in 0..MaxSize : describe_all_connections(i)
    \/ Resolve

SpecResolve == InitResolvers /\ [][NextResolve]_vars

\* ------------------------------------------------------------ iteration
\* A running generator: the descriptor it was called on and the next value
\* of its loop variable. gen holds the generators of the nested loops
\*   for d1 in root.describe_all_tft():
\*     for d2 in d1.describe_all_test_cases():
\*       for d3 in d2.describe_all_connections(): ...
\* outermost first.
Frame(self, i) == [self |-> self, i |-> i]

\* range(len(...)) of the generator at the given nesting level.
GenLen(level, self) ==
    IF level = 1 THEN Len(config_tft)
    ELSE IF level = 2 THEN Len(get_tft(self).val[1].test_cases)
    ELSE Len(get_tft(self).val[1].connections)

\* Mutant: describe_all_connections does not pass on test_cases_idx.
GenYield_DropsSelection(level, self, i) ==
    IF level = 1 THEN <<i, 0 - 1, 0 - 1>>
    ELSE IF level = 2 THEN <<self.tft_idx, i, self.connections_idx>>
    ELSE <<self.tft_idx, 0 - 1, i>>

\* Mutant: describe_all_test_cases counts its index from the end.
GenYield_Descending(level, self, i) ==
    IF level = 1 THEN <<i, 0 - 1, 0 - 1>>
    ELSE IF level = 2
    THEN <<self.tft_idx, GenLen(2, self) - 1 - i, self.connections_idx>>
    ELSE <<self.tft_idx, self.test_cases_idx, i>>

\* The indices the generator gives to ConfigDescriptor(...) for loop value i.
GenYield(level, self, i) ==
    IF level = 1 THEN <<i, 0 - 1, 0 - 1>>
    ELSE IF level = 2 THEN <<self.tft_idx, i, self.connections_idx>>
    ELSE <<self.tft_idx, self.test_cases_idx, i>>

\* The innermost running generator is resumed: it yields its next
\* descriptor, on which the loop body starts the next inner generator (the
\* innermost loop records the descriptor), or it is exhausted and ends. A
\* descriptor whose construction raises ends the whole iteration.
Resume(level) ==
    /\ Len(gen) = level
    /\ LET f == gen[level]
           a == GenYield(level, f.self, f.i)
       IN  IF f.i < GenLen(level, f.self)
           THEN /\ NewDescriptor(a[1], a[2], a[3])
                /\ IF d_err' # "ok"
                   THEN gen' = <<>> /\ UNCHANGED yielded
                   ELSE IF level < 3
                   THEN /\ gen' = Append([gen EXCEPT ![level].i = f.i + 1],
                                         Frame(descr', 0))
                        /\ UNCHANGED yielded
                   ELSE /\ gen' = [gen EXCEPT ![level].i = f.i + 1]
                        /\ yielded' = Append(yielded, a)
           ELSE /\ gen' = SubSeq(gen, 1, level - 1)
                /\ UNCHANGED <<yielded, descrVars, instVars, parseVars,
                               pureVars, infoVars, kubeVars,
                   runVars, clientVars, tcpVars>>
    /\ UNCHANGED <<firstRun, resolveVars>>

\* next() on the generator of describe_all_tft, of describe_all_test_cases
\* and of describe_all_connections.
IterTft == Resume(1)
IterTestCases == Resume(2)
IterConnections == Resume(3)

\* The caller starts the iteration on the root descriptor.
IterStart ==
    /\ gen = <<>> /\ yielded = <<>> /\ firstRun = <<>> /\ d_err = "ok"
    /\ gen' = <<Frame(RootDescriptor, 0)>>
    /\ UNCHANGED <<yielded, firstRun, resolveVars, descrVars, instVars,
                   parseVars, pureVars, infoVars, kubeVars,
                   runVars, clientVars, tcpVars>>

\* After a complete iteration the caller iterates again from the root.
IterRestart ==
    /\ gen = <<>> /\ yielded # <<>> /\ firstRun = <<>> /\ d_err = "ok"
    /\ firstRun' = <<yielded>>
    /\ yielded' = <<>>
    /\ gen' = <<Frame(RootDescriptor, 0)>>
    /\ UNCHANGED <<resolveVars, descrVars, instVars, parseVars, pureVars,
                   infoVars, kubeVars,
                   runVars, clientVars, tcpVars>>

NextIterate ==
    \/ IterStart
    \/ IterTft
    \/ IterTestCases
    \/ IterConnections
    \/ IterRestart

\* The nested iteration over a parsed configuration.
SpecIterate == InitDescriptors /\ [][NextIterate]_vars

\* -------------------------------------------------------------- parsing
\* A document is a mapping from keys to values; a key that the YAML leaves
\* out is not in its domain. A string that is taken apart or put together
\* (a name, a command line) is the sequence of its pieces, an optional
\* value is the empty sequence (None) or a sequence of one value.

\* duration of a test group that gives none (or 0).
DefaultDuration == 3600

\* Largest duration a document gives.
MaxDuration == 2

\* Test groups of a run, and flows of one test group.
MaxTests == 2
MaxFlows == 1

\* Connections the simple TCP server accepts at most.
MaxAccepts == 3

\* TestType members by name.
TestTypes == {"IPERF_TCP", "IPERF_UDP", "SIMPLE"}

\* TestCaseType members by name, in declaration order.
TestCaseTypes == <<"POD_TO_POD_SAME_NODE", "POD_TO_POD_DIFF_NODE">>

\* Names of the registered plugins.
PluginNames == {"measure_cpu", "measure_power", "validate_offload"}

Has(d, k) == k \in DOMAIN d
Get(d, k, default) == IF Has(d, k) THEN d[k] ELSE default
OptGet(d, k) == IF Has(d, k) THEN <<d[k]>> ELSE <<>>

\* A parse step's outcome: the value, or the error with the offending key.
Ok(v) == [err |-> "", key |-> "", val |-> <<v>>]
Err(e, k) == [err |-> e, key |-> k, val |-> <<>>]

\* f"{idx}" for the positions that occur.
IdxStr(i) == <<"1", "2", "3", "4">>[i]

\* The outcomes of the elements of a list, in order: the values if all
\* succeeded, else the first error.
Collect(rs) ==
    LET bad == {k \in 1..Len(rs) : rs[k].err # ""}
        first == CHOOSE k \in bad : \A j \in bad : k <= j
    IN  IF bad = {}
        THEN Ok([k \in 1..Len(rs) |-> rs[k].val[1]])
        ELSE rs[first]

\* The list under the key; a missing list counts as empty.
PopList(d, k) == Get(d, k, <<>>)

\* common.structparse_pop_objlist on the popped list v of key k, of which
\* constructed holds what construct gives for every item.
structparse_pop_objlist(v, k, allow_empty, constructed) ==
    IF v = <<>> /\ ~allow_empty
    THEN Err("mandatory list argument is missing", k)
    ELSE Collect(constructed)

\* shlex.split on a command line of words and blanks.
shlex_split(s) == SelectSeq(s, LAMBDA x : x # " ")

\* ConfNodeBase._parse._construct_args
_construct_args(arg) ==
    IF Has(arg, "str") THEN shlex_split(arg.str) ELSE arg.list

\* ConfNodeBase._parse
ConfNodeBase_parse(conf_type, d, yamlidx) ==
    IF ~Has(d, "name")
    THEN Err("mandatory key missing", "name")
    ELSE LET sriov == Get(d, "sriov", FALSE)
             default_network ==
                 IF Has(d, "default_network")
                 THEN d["default_network"]
                 ELSE Get(d, "default-network", "default/default")
             base == [yamlidx |-> yamlidx,
                      name |-> d.name,
                      pod_type |-> IF sriov THEN "SRIOV" ELSE "NORMAL",
                      sriov |-> sriov,
                      default_network |-> default_network,
                      privileged_pod |-> OptGet(d, "privileged_pod"),
                      args |-> IF Has(d, "args")
                               THEN <<_construct_args(d.args)>>
                               ELSE <<>>]
         IN  IF conf_type = "ConfNodeServer"
             THEN Ok(base @@ [persistent |-> Get(d, "persistent", FALSE)])
             ELSE Ok(base)

\* ConfNodeServer.parse and ConfNodeClient.parse
ConfNodeServer_parse(d, yamlidx) == ConfNodeBase_parse("ConfNodeServer", d, yamlidx)
ConfNodeClient_parse(d, yamlidx) == ConfNodeBase_parse("ConfNodeClient", d, yamlidx)

\* Mutant: extra arguments are accepted for the iperf UDP type, too.
_validate_AllowsUdp(node, test_type) ==
    IF node.args # <<>> /\ test_type \notin {"SIMPLE", "IPERF_UDP"}
    THEN "not supported with test type"
    ELSE ""

\* ConfNodeBase._validate: the error it raises on key "args", "" if none.
_validate(node, test_type) ==
    IF node.args # <<>> /\ test_type \notin {"SIMPLE"}
    THEN "not supported with test type"
    ELSE ""

\* Mutant: a node's extra arguments are not serialized.
ConfNodeBase_serialize_NoArgs(node) ==
    ("name" :> node.name)
    @@ ("sriov" :> node.sriov)
    @@ ("default_network" :> node.default_network)
    @@ (IF node.privileged_pod # <<>>
        THEN ("privileged_pod" :> node.privileged_pod[1]) ELSE <<>>)
    @@ (IF Has(node, "persistent")
        THEN ("persistent" :> node.persistent) ELSE <<>>)

\* ConfNodeBase.serialize, with ConfNodeServer.serialize for a server.
ConfNodeBase_serialize(node) ==
    ("name" :> node.name)
    @@ ("sriov" :> node.sriov)
    @@ ("default_network" :> node.default_network)
    @@ (IF node.privileged_pod # <<>>
        THEN ("privileged_pod" :> node.privileged_pod[1]) ELSE <<>>)
    @@ (IF node.args # <<>> THEN ("args" :> [list |-> node.args[1]]) ELSE <<>>)
    @@ (IF Has(node, "persistent")
        THEN ("persistent" :> node.persistent) ELSE <<>>)

\* ConfPlugin.parse: a plain name or a mapping with the name.
ConfPlugin_parse(arg, yamlidx) ==
    LET is_plain_name == Has(arg, "str")
        named == is_plain_name \/ Has(arg.dict, "name")
        name == IF is_plain_name THEN arg.str ELSE arg.dict.name
    IN  IF ~named
        THEN Err("mandatory key missing", "name")
        ELSE IF name \notin PluginNames
        THEN Err("unknown plugin", IF is_plain_name THEN "" ELSE "name")
        ELSE Ok([yamlidx |-> yamlidx, name |-> name, plugin |-> name])

\* StructParseBaseNamed.serialize of a plugin.
ConfPlugin_serialize(p) == [dict |-> ("name" :> p.name)]

\* ConfConnection.parse
ConfConnection_parse(d, yamlidx, test_name, namespace) ==
    LET name == Get(d, "name",
                    <<"Connection ">> \o test_name \o <<"/", IdxStr(yamlidx + 1)>>)
        test_type == Get(d, "type", "IPERF_TCP")
        instances == Get(d, "instances", 1)
        server == structparse_pop_objlist(PopList(d, "server"), "server", TRUE,
            [i \in 1..Len(PopList(d, "server")) |->
                ConfNodeServer_parse(PopList(d, "server")[i], i - 1)])
        client == structparse_pop_objlist(PopList(d, "client"), "client", TRUE,
            [i \in 1..Len(PopList(d, "client")) |->
                ConfNodeClient_parse(PopList(d, "client")[i], i - 1)])
        plugins_ == structparse_pop_objlist(PopList(d, "plugins"), "plugins", TRUE,
            [i \in 1..Len(PopList(d, "plugins")) |->
                ConfPlugin_parse(PopList(d, "plugins")[i], i - 1)])
        s == server.val[1]
        c == client.val[1]
    IN  IF test_type \notin TestTypes
        THEN Err("invalid enum value", "type")
        ELSE IF ~(instances > 0)
        THEN Err("invalid value", "instances")
        ELSE IF server.err # "" THEN server
        ELSE IF client.err # "" THEN client
        ELSE IF plugins_.err # "" THEN plugins_
        ELSE IF Len(s) > 1
        THEN Err("currently only one server entry is supported", "server")
        ELSE IF Len(c) > 1
        THEN Err("currently only one client entry is supported", "client")
        ELSE IF \E k \in 1..Len(s) : _validate(s[k], test_type) # ""
        THEN Err(_validate(s[1], test_type), "args")
        ELSE IF \E k \in 1..Len(c) : _validate(c[k], test_type) # ""
        THEN Err(_validate(c[1], test_type), "args")
        ELSE Ok([yamlidx |-> yamlidx,
                 name |-> name,
                 test_type |-> test_type,
                 test_type_handler |-> test_type,
                 instances |-> instances,
                 server |-> s,
                 client |-> c,
                 plugins |-> plugins_.val[1],
                 secondary_network_nad |-> OptGet(d, "secondary_network_nad"),
                 resource_name |-> OptGet(d, "resource_name"),
                 namespace |-> namespace])

\* ConfConnection.serialize
ConfConnection_serialize(c) ==
    ("name" :> c.name)
    @@ ("type" :> c.test_type)
    @@ ("instances" :> c.instances)
    @@ ("server" :> [k \in 1..Len(c.server) |-> ConfNodeBase_serialize(c.server[k])])
    @@ ("client" :> [k \in 1..Len(c.client) |-> ConfNodeBase_serialize(c.client[k])])
    @@ ("plugins" :> [k \in 1..Len(c.plugins) |-> ConfPlugin_serialize(c.plugins[k])])
    @@ (IF c.secondary_network_nad # <<>>
        THEN ("secondary_network_nad" :> c.secondary_network_nad[1]) ELSE <<>>)
    @@ (IF c.resource_name # <<>>
        THEN ("resource_name" :> c.resource_name[1]) ELSE <<>>)

\* common.enum_convert_list(TestCaseType, arg): "*" stands for all members.
enum_convert_list(arg) ==
    IF Has(arg, "str")
    THEN IF arg.str = "*" THEN Ok(TestCaseTypes) ELSE Err("invalid", "test_cases")
    ELSE IF \A k \in 1..Len(arg.list) :
               \E j \in 1..Len(TestCaseTypes) : arg.list[k] = TestCaseTypes[j]
    THEN Ok(arg.list)
    ELSE Err("invalid", "test_cases")

\* ConfTest.parse._construct_test_cases
_construct_test_cases(d) ==
    LET given == Get(d, "test_cases", [str |-> ""])
        arg == IF Has(given, "str") /\ given.str = "" THEN [str |-> "*"] ELSE given
    IN  IF enum_convert_list(arg).err # ""
        THEN Err("value is not a valid list of test cases", "test_cases")
        ELSE enum_convert_list(arg)

\* pathlib.Path(s), by the string it prints as: a leading "./" is dropped.
Path(s) == IF Len(s) > 1 /\ s[1] = "./" THEN Tail(s) ELSE s

\* Mutant: a duration of 0 is kept.
duration_NotNormalized(given) == given

\* ConfTest.parse: the duration of a test group whose document gives the
\* accepted number (0 if it gives none).
duration(given) == IF given = 0 THEN DefaultDuration ELSE given

\* ConfTest.parse
ConfTest_parse(d, yamlidx) ==
    LET name == Get(d, "name", <<"Test ", IdxStr(yamlidx + 1)>>)
        namespace == Get(d, "namespace", "default")
        test_cases == _construct_test_cases(d)
        given == Get(d, "duration", 0)
        connections == structparse_pop_objlist(PopList(d, "connections"), "connections", FALSE,
            [i \in 1..Len(PopList(d, "connections")) |->
                ConfConnection_parse(PopList(d, "connections")[i], i - 1, name, namespace)])
    IN  IF test_cases.err # "" THEN test_cases
        ELSE IF ~(given >= 0)
        THEN Err("expects a duration in seconds", "duration")
        ELSE IF connections.err # "" THEN connections
        ELSE Ok([yamlidx |-> yamlidx,
                 name |-> name,
                 namespace |-> namespace,
                 test_cases |-> test_cases.val[1],
                 duration |-> duration(given),
                 privileged_pod |-> Get(d, "privileged_pod", FALSE),
                 connections |-> connections.val[1],
                 logs |-> Path(Get(d, "logs", <<"ft-logs">>))])

\* ConfTest.serialize
ConfTest_serialize(t) ==
    ("name" :> t.name)
    @@ ("namespace" :> t.namespace)
    @@ ("test_cases" :> [list |-> t.test_cases])
    @@ ("duration" :> t.duration)
    @@ ("privileged_pod" :> t.privileged_pod)
    @@ ("connections" :>
           [k \in 1..Len(t.connections) |-> ConfConnection_serialize(t.connections[k])])
    @@ ("logs" :> t.logs)

\* common.structparse_pop_str(..., default=None): a null counts as missing.
structparse_pop_str(d, k) == Get(d, k, <<>>)

\* ConfConfig.parse
ConfConfig_parse(full_config) ==
    LET tft == structparse_pop_objlist(PopList(full_config, "tft"), "tft", FALSE,
            [i \in 1..Len(PopList(full_config, "tft")) |->
                ConfTest_parse(PopList(full_config, "tft")[i], i - 1)])
        kubeconfig == structparse_pop_str(full_config, "kubeconfig")
        kubeconfig_infra == structparse_pop_str(full_config, "kubeconfig_infra")
    IN  IF tft.err # "" THEN tft
        ELSE IF kubeconfig_infra # <<>> /\ kubeconfig = <<>>
        THEN Err("missing parameter when kubeconfig_infra is given", "kubeconfig")
        ELSE Ok([tft |-> tft.val[1],
                 kubeconfig |-> kubeconfig,
                 kubeconfig_infra |-> kubeconfig_infra])

\* ConfConfig.serialize
ConfConfig_serialize(c) ==
    ("tft" :> [k \in 1..Len(c.tft) |-> ConfTest_serialize(c.tft[k])])
    @@ ("kubeconfig" :> c.kubeconfig)
    @@ ("kubeconfig_infra" :> c.kubeconfig_infra)

\* The key with its value, nothing for a key the document leaves out.
Field(k, opt) == IF opt = <<>> THEN <<>> ELSE (k :> opt[1])

\* Documents of a server node: plain, with a command line, with an argument
\* list (empty or not), and with every optional key.
ServerDocs ==
    LET B == ("name" :> <<"srv">>)
    IN  {B,
         B @@ ("args" :> [str |-> <<"-x", " ", "-y">>]),
         B @@ ("args" :> [list |-> <<>>]),
         B @@ ("args" :> [list |-> <<"-x">>]),
         B @@ ("sriov" :> TRUE) @@ ("default-network" :> "ns/net")
           @@ ("privileged_pod" :> TRUE) @@ ("persistent" :> TRUE)}

\* Documents of a client node.
ClientDocs ==
    LET B == ("name" :> <<"cli">>)
    IN  {B,
         B @@ ("args" :> [list |-> <<"-x">>]),
         B @@ ("sriov" :> TRUE) @@ ("default_network" :> "ns/net")
           @@ ("privileged_pod" :> FALSE)}

\* What a connection gives as "server": nothing, or a list of up to two.
ServerLists ==
    {<<>>, <<<<>>>>, <<<<("name" :> <<"srv">>), ("name" :> <<"srv2">>)>>>>}
    \cup {<<<<d>>>> : d \in ServerDocs}

\* What a connection gives as "client".
ClientLists ==
    {<<>>, <<<<("name" :> <<"cli">>), ("name" :> <<"cli2">>)>>>>}
    \cup {<<<<d>>>> : d \in ClientDocs}

\* The other keys of a connection: none of them, or all.
ConnectionExtras ==
    {<<>>,
     ("name" :> <<"conn">>) @@ ("instances" :> 2)
       @@ ("plugins" :> <<[str |-> "measure_cpu"],
                          [dict |-> ("name" :> "measure_power")]>>)
       @@ ("secondary_network_nad" :> "nad") @@ ("resource_name" :> "res")}

\* Documents of a connection, with three that break a rule of their own.
ConnectionDocs ==
    {Field("type", t) @@ Field("server", s) @@ Field("client", c) @@ x :
        t \in {<<>>, <<"IPERF_UDP">>, <<"SIMPLE">>},
        s \in ServerLists, c \in ClientLists, x \in ConnectionExtras}
    \cup {("instances" :> 0),
          ("type" :> "BOGUS"),
          ("plugins" :> <<[str |-> "bogus"]>>)}

\* What a test group gives as "connections".
ConnectionDocLists ==
    {<<>>, <<<<>>>>, <<<<<<>>, ("type" :> "SIMPLE")>>>>}
    \cup {<<<<c>>>> : c \in ConnectionDocs}

\* The other keys of a test group: none of them, or all.
TestExtras ==
    {<<>>,
     ("name" :> <<"test">>) @@ ("namespace" :> "ns")
       @@ ("test_cases" :> [list |-> <<"POD_TO_POD_DIFF_NODE">>])
       @@ ("privileged_pod" :> TRUE) @@ ("logs" :> <<"./", "out">>)}

\* Documents of a test group.
TestDocs ==
    {Field("duration", n) @@ Field("connections", cs) @@ x :
        n \in {<<>>} \cup {<<k>> : k \in (0 - 1)..MaxDuration},
        cs \in ConnectionDocLists, x \in TestExtras}

\* What the configuration gives as kubeconfig and kubeconfig_infra.
KubeconfigDocs ==
    {<<>>,
     ("kubeconfig" :> <<"/k">>),
     ("kubeconfig" :> <<"/k">>) @@ ("kubeconfig_infra" :> <<"/ki">>),
     ("kubeconfig_infra" :> <<"/ki">>)}

\* The documents given to ConfConfig.parse.
ConfigDocs ==
    {("tft" :> <<t>>) @@ k : t \in TestDocs, k \in KubeconfigDocs}
    \cup {<<>>, ("tft" :> <<<<>>, ("duration" :> 1)>>)}

\* TestConfig.__init__ parses the document it is given.
Parse ==
    /\ parsed = <<>>
    /\ parsed' = ConfConfig_parse(doc)
    /\ UNCHANGED <<doc, ser, reparsed, reser>>
    /\ UNCHANGED <<instVars, descrVars, resolveVars, walkVars, pureVars,
                   infoVars, kubeVars,
                   runVars, clientVars, tcpVars>>

\* The parsed configuration is serialized.
Serialize ==
    /\ parsed # <<>> /\ parsed.err = "" /\ ser = <<>>
    /\ ser' = <<ConfConfig_serialize(parsed.val[1])>>
    /\ UNCHANGED <<doc, parsed, reparsed, reser>>
    /\ UNCHANGED <<instVars, descrVars, resolveVars, walkVars, pureVars,
                   infoVars, kubeVars,
                   runVars, clientVars, tcpVars>>

\* The serialized document is parsed.
Reparse ==
    /\ ser # <<>> /\ reparsed = <<>>
    /\ reparsed' = ConfConfig_parse(ser[1])
    /\ UNCHANGED <<doc, parsed, ser, reser>>
    /\ UNCHANGED <<instVars, descrVars, resolveVars, walkVars, pureVars,
                   infoVars, kubeVars,
                   runVars, clientVars, tcpVars>>

\* The reparsed configuration is serialized.
Reserialize ==
    /\ reparsed # <<>> /\ reparsed.err = "" /\ reser = <<>>
    /\ reser' = <<ConfConfig_serialize(reparsed.val[1])>>
    /\ UNCHANGED <<doc, parsed, ser, reparsed>>
    /\ UNCHANGED <<instVars, descrVars, resolveVars, walkVars, pureVars,
                   infoVars, kubeVars,
                   runVars, clientVars, tcpVars>>

\* A document that has not been parsed yet.
InitParser ==
    /\ plugins = {}
    /\ connection_mode = "CLUSTER_IP"
    /\ exec_persistent = FALSE
    /\ InitInstance
    /\ config_tft = <<[test_cases |-> <<1>>, connections |-> <<1>>]>>
    /\ d_args = <<0 - 1, 0 - 1, 0 - 1>>
    /\ d_err = "ok"
    /\ descr = RootDescriptor
    /\ doc \in ConfigDocs
    /\ parsed = <<>> /\ ser = <<>> /\ reparsed = <<>> /\ reser = <<>>
    /\ InitResolve /\ InitWalk /\ InitPure /\ InitInfos /\ InitKube
    /\ InitRun /\ InitClient /\ InitTcp

NextParse ==
    \/ Parse
    \/ Serialize
    \/ Reparse
    \/ Reserialize

SpecParse == InitParser /\ [][NextParse]_vars

\* ------------------------------------------------------- pure functions
\* An optional bool: unset, True or False.
OptBools == {<<>>, <<TRUE>>, <<FALSE>>}

\* Mutant: the test expects an unset second argument to follow the first.
test_eval_binary_opt_in_Follows ==
    {<<<<>>, <<>>, <<TRUE, TRUE>>>>,
     <<<<FALSE>>, <<>>, <<FALSE, FALSE>>>>,
     <<<<>>, <<FALSE>>, <<TRUE, FALSE>>>>,
     <<<<TRUE>>, <<>>, <<TRUE, TRUE>>>>,
     <<<<>>, <<TRUE>>, <<FALSE, TRUE>>>>,
     <<<<FALSE>>, <<FALSE>>, <<FALSE, FALSE>>>>,
     <<<<TRUE>>, <<TRUE>>, <<TRUE, TRUE>>>>,
     <<<<TRUE>>, <<FALSE>>, <<TRUE, FALSE>>>>,
     <<<<FALSE>>, <<TRUE>>, <<FALSE, TRUE>>>>}

\* test_eval_binary_opt_in: the arguments and the result it asserts for them.
test_eval_binary_opt_in ==
    {<<<<>>, <<>>, <<TRUE, TRUE>>>>,
     <<<<FALSE>>, <<>>, <<FALSE, TRUE>>>>,
     <<<<>>, <<FALSE>>, <<TRUE, FALSE>>>>,
     <<<<TRUE>>, <<>>, <<TRUE, FALSE>>>>,
     <<<<>>, <<TRUE>>, <<FALSE, TRUE>>>>,
     <<<<FALSE>>, <<FALSE>>, <<FALSE, FALSE>>>>,
     <<<<TRUE>>, <<TRUE>>, <<TRUE, TRUE>>>>,
     <<<<TRUE>>, <<FALSE>>, <<TRUE, FALSE>>>>,
     <<<<FALSE>>, <<TRUE>>, <<FALSE, TRUE>>>>}

\* tftbase.eval_binary_opt_in: an explicit argument stands, an unset one is
\* the negation of an explicit other, and two unset ones are both True.
eval_binary_opt_in(a, b) ==
    IF a = <<>> /\ b = <<>> THEN <<TRUE, TRUE>>
    ELSE IF a = <<>> THEN <<~b[1], b[1]>>
    ELSE IF b = <<>> THEN <<a[1], ~a[1]>>
    ELSE <<a[1], b[1]>>

\* A caller evaluates the two opt-in flags.
EvalOptIn ==
    /\ opt_out = <<>>
    /\ opt_out' = <<eval_binary_opt_in(opt_in[1], opt_in[2])>>
    /\ UNCHANGED <<opt_in, gbps_in, gbps_out>>
    /\ UNCHANGED <<instVars, descrVars, resolveVars, walkVars, parseVars,
                   infoVars, kubeVars,
                   runVars, clientVars, tcpVars>>

\* Bits per second a raw result reports.
BitsPerSecond == {0, 1500000000}

\* bits / 1e9, in thousandths of a Gbps.
Gbps(bits) == bits \div 1000000

\* Bitrate.NA and a measured Bitrate.
BitrateNA == [tx |-> <<>>, rx |-> <<>>]
Bitrate(tx, rx) == [tx |-> <<tx>>, rx |-> <<rx>>]

\* The "end" sections a raw iperf result can have: complete for TCP or for
\* UDP, with a sum missing, or with a sum that has no bits_per_second.
EndSections ==
    {("sum_sent" :> ("bits_per_second" :> s))
       @@ ("sum_received" :> ("bits_per_second" :> r)) : s, r \in BitsPerSecond}
    \cup {("sum" :> ("bits_per_second" :> s)) : s \in BitsPerSecond}
    \cup {<<>>,
          ("sum_sent" :> ("bits_per_second" :> 0)),
          ("sum_sent" :> <<>>) @@ ("sum_received" :> ("bits_per_second" :> 0)),
          ("sum" :> <<>>)}

\* Raw results: with an error field, without an end section, or with one.
RawResults ==
    {<<>>, ("error" :> "unable to connect")}
    \cup {("end" :> e) : e \in EndSections}
    \cup {("error" :> "interrupted") @@ ("end" :> e) : e \in EndSections}

\* TestTypeHandlerIperf._calculate_gbps_tcp
_calculate_gbps_tcp(result) ==
    IF ~Has(result, "end") \/ ~Has(result.end, "sum_sent")
       \/ ~Has(result.end, "sum_received")
    THEN Raised("calculate_gbps_iperf_tcp(): failed to parse iperf test results")
    ELSE IF ~Has(result.end.sum_sent, "bits_per_second")
            \/ ~Has(result.end.sum_received, "bits_per_second")
    THEN Raised("KeyError")
    ELSE Returned(Bitrate(Gbps(result.end.sum_sent.bits_per_second),
                          Gbps(result.end.sum_received.bits_per_second)))

\* TestTypeHandlerIperf._calculate_gbps_udp
_calculate_gbps_udp(result) ==
    IF ~Has(result, "end") \/ ~Has(result.end, "sum")
       \/ ~Has(result.end.sum, "bits_per_second")
    THEN Raised("KeyError")
    ELSE Returned(Bitrate(Gbps(result.end.sum.bits_per_second),
                          Gbps(result.end.sum.bits_per_second)))

\* TestTypeHandlerIperf.calculate_gbps
calculate_gbps(test_type, result) ==
    IF Has(result, "error")
    THEN Returned(BitrateNA)
    ELSE IF test_type = "IPERF_TCP"
    THEN _calculate_gbps_tcp(result)
    ELSE _calculate_gbps_udp(result)

\* The handler computes the bitrate of a raw result.
CalculateGbps ==
    /\ gbps_out = <<>>
    /\ gbps_out' = calculate_gbps(gbps_in.test_type, gbps_in.result)
    /\ UNCHANGED <<opt_in, opt_out, gbps_in>>
    /\ UNCHANGED <<instVars, descrVars, resolveVars, walkVars, parseVars,
                   infoVars, kubeVars,
                   runVars, clientVars, tcpVars>>

\* Arguments that have not been evaluated yet.
InitEval ==
    /\ plugins = {}
    /\ connection_mode = "CLUSTER_IP"
    /\ exec_persistent = FALSE
    /\ InitInstance
    /\ config_tft = <<[test_cases |-> <<1>>, connections |-> <<1>>]>>
    /\ d_args = <<0 - 1, 0 - 1, 0 - 1>>
    /\ d_err = "ok"
    /\ descr = RootDescriptor
    /\ opt_in \in OptBools \X OptBools
    /\ opt_out = <<>>
    /\ gbps_in \in [test_type : {"IPERF_TCP", "IPERF_UDP"}, result : RawResults]
    /\ gbps_out = <<>>
    /\ InitResolve /\ InitWalk /\ InitParse /\ InitInfos /\ InitKube
    /\ InitRun /\ InitClient /\ InitTcp

NextEval ==
    \/ EvalOptIn
    \/ CalculateGbps

SpecEval == InitEval /\ [][NextEval]_vars

\* ------------------------------------------------- test case type infos
\* identical_cases of test_test_case_typ_infos: the pairs of test case types
\* that behave alike.
identical_cases ==
    <<<<"POD_TO_NODE_PORT_TO_POD_SAME_NODE", "POD_TO_NODE_PORT_TO_HOST_SAME_NODE">>,
      <<"POD_TO_NODE_PORT_TO_POD_DIFF_NODE", "POD_TO_NODE_PORT_TO_HOST_DIFF_NODE">>,
      <<"HOST_TO_HOST_SAME_NODE", "HOST_TO_POD_SAME_NODE">>,
      <<"HOST_TO_HOST_DIFF_NODE", "HOST_TO_POD_DIFF_NODE">>,
      <<"POD_TO_EXTERNAL", "HOST_TO_EXTERNAL">>>>

\* identical_cases_flat
identical_cases_flat ==
    [k \in 1..(2 * Len(identical_cases)) |->
        identical_cases[(k + 1) \div 2][2 - (k % 2)]]

\* A declaration order of the TestCaseType members the test file names,
\* which has the first member of every pair before the second and the pairs
\* in the order of identical_cases.
DeclaredNames ==
    <<"POD_TO_POD_SAME_NODE",
      "POD_TO_NODE_PORT_TO_POD_SAME_NODE", "POD_TO_NODE_PORT_TO_POD_DIFF_NODE",
      "POD_TO_NODE_PORT_TO_HOST_SAME_NODE", "POD_TO_NODE_PORT_TO_HOST_DIFF_NODE",
      "HOST_TO_HOST_SAME_NODE", "HOST_TO_HOST_DIFF_NODE",
      "HOST_TO_POD_SAME_NODE", "HOST_TO_POD_DIFF_NODE",
      "POD_TO_EXTERNAL", "HOST_TO_EXTERNAL">>

\* Position of a name in a sequence of names, 0 if it is not in it.
IndexOf(names, n) ==
    IF \E k \in 1..Len(names) : names[k] = n
    THEN CHOOSE k \in 1..Len(names) : names[k] = n
    ELSE 0

\* The pair of identical_cases the name is in, 0 if in none.
PairOf(n) == (IndexOf(identical_cases_flat, n) + 1) \div 2

\* The other member of the name's pair.
Partner(n) ==
    LET p == identical_cases[PairOf(n)]
    IN  IF p[1] = n THEN p[2] ELSE p[1]

\* The two items at positions i and i + 1 change places.
Swap(s, i) ==
    [k \in 1..Len(s) |-> IF k = i THEN s[i + 1] ELSE IF k = i + 1 THEN s[i] ELSE s[k]]

\* The TestCaseType enum: its members in declaration order, numbered from
\* first.
EnumOf(names, first) ==
    [k \in 1..Len(names) |-> [name |-> names[k], value |-> first + k - 1]]

\* The values a TestCaseTypInfo can have for the four compared fields.
Behaviours ==
    {"POD_IP", "NODE_PORT_IP", "EXTERNAL_IP"} \X BOOLEAN \X BOOLEAN \X BOOLEAN

\* One behaviour per pair, and one for the type that is in no pair.
PairBehaviour(p) ==
    <<<<"POD_IP", TRUE, FALSE, FALSE>>,
      <<"NODE_PORT_IP", TRUE, FALSE, FALSE>>,
      <<"NODE_PORT_IP", FALSE, FALSE, FALSE>>,
      <<"POD_IP", TRUE, TRUE, TRUE>>,
      <<"POD_IP", FALSE, TRUE, TRUE>>,
      <<"EXTERNAL_IP", FALSE, FALSE, FALSE>>>>[p + 1]

\* A TestCaseTypInfo under its key in _test_case_typ_infos.
TypInfo(key, behaviour, deprecated_alias_for) ==
    [key |-> key,
     test_case_type |-> key,
     connection_mode |-> behaviour[1],
     is_same_node |-> behaviour[2],
     is_server_hostbacked |-> behaviour[3],
     is_client_hostbacked |-> behaviour[4],
     deprecated_alias_for |-> deprecated_alias_for]

\* A table in which the members of a pair behave alike and one member of
\* every pair is marked as the alias of the other: the second member, the
\* first member, or the first member in the first pair only.
AliasedTable(marked) ==
    [k \in 1..Len(DeclaredNames) |->
        LET n == DeclaredNames[k]
            p == PairOf(n)
            second == p # 0 /\ identical_cases[p][2] = n
            is_alias == /\ p # 0
                        /\ \/ marked = "second" /\ second
                           \/ marked = "first" /\ ~second
                           \/ marked = "mixed" /\ (second <=> p # 1)
        IN  TypInfo(n, PairBehaviour(p), IF is_alias THEN <<Partner(n)>> ELSE <<>>)]

\* The ways the pairs mark their alias.
AliasMarks == {"second", "first", "mixed"}

\* The tables that differ from an aliased table in the behaviour or in the
\* alias mark of at most one entry.
Tables(marks) ==
    UNION {
        {[t EXCEPT ![k] = TypInfo(t[k].key, b, t[k].deprecated_alias_for)] :
            k \in 1..Len(t), b \in Behaviours}
        \cup
        {[t EXCEPT ![k] = TypInfo(t[k].key, PairBehaviour(PairOf(t[k].key)), a)] :
            k \in 1..Len(t),
            a \in {<<>>} \cup {<<DeclaredNames[j]>> : j \in 1..Len(DeclaredNames)}}
        : t \in {AliasedTable(m) : m \in marks}}

\* The enum and the table as the test finds them: as declared, or with
\* values counted from 0, with two members declared the other way round,
\* with two table entries the other way round, or with an info under the
\* key of another type.
InfoInputs(tables) ==
    LET N == Len(DeclaredNames)
    IN  UNION {
          {[enum |-> EnumOf(DeclaredNames, 1), table |-> t],
           [enum |-> EnumOf(DeclaredNames, 0), table |-> t],
           [enum |-> EnumOf(Swap(DeclaredNames, N - 1), 1), table |-> Swap(t, N - 1)],
           [enum |-> EnumOf(DeclaredNames, 1), table |-> Swap(t, 1)],
           [enum |-> EnumOf(DeclaredNames, 1),
            table |-> [t EXCEPT ![1].test_case_type = t[2].key]]}
          : t \in tables}

\* typ.value of the member with the name.
ValueOf(enum, n) ==
    (CHOOSE m \in {enum[k] : k \in 1..Len(enum)} : m.name = n).value

\* test_test_case_typ_infos._is_identical
_is_identical(ti1, ti2) ==
    /\ ti1.connection_mode = ti2.connection_mode
    /\ ti1.is_same_node = ti2.is_same_node
    /\ ti1.is_server_hostbacked = ti2.is_server_hostbacked
    /\ ti1.is_client_hostbacked = ti2.is_client_hostbacked

\* typ.info of the member with the name.
InfoOf(table, n) ==
    CHOOSE ti \in {table[k] : k \in 1..Len(table)} : ti.key = n

\* Mutant: the test does not look at the types outside identical_cases.
test_test_case_typ_infos_PairsOnly(enum, table) ==
    /\ \A k \in 1..Len(table) : table[k].key = table[k].test_case_type
    /\ [k \in 1..Len(table) |-> table[k].key] = [k \in 1..Len(enum) |-> enum[k].name]
    /\ [k \in 1..Len(enum) |-> k] = [k \in 1..Len(enum) |-> enum[k].value]
    /\ \A j, k \in 1..Len(identical_cases_flat) :
          j # k => identical_cases_flat[j] # identical_cases_flat[k]
    /\ \A j \in 1..Len(identical_cases) :
          /\ ValueOf(enum, identical_cases[j][1]) < ValueOf(enum, identical_cases[j][2])
          /\ \A k \in (j + 1)..Len(identical_cases) :
                ValueOf(enum, identical_cases[j][1]) < ValueOf(enum, identical_cases[k][1])
    /\ \A j \in 1..Len(identical_cases) :
          LET a == InfoOf(table, identical_cases[j][1])
              b == InfoOf(table, identical_cases[j][2])
          IN  IF a.deprecated_alias_for = <<>>
              THEN b.deprecated_alias_for = <<identical_cases[j][1]>>
              ELSE /\ b.deprecated_alias_for = <<>>
                   /\ a.deprecated_alias_for = <<identical_cases[j][2]>>
    /\ \A j \in 1..Len(table) : \A k \in (j + 1)..Len(table) :
          (\E p \in 1..Len(identical_cases) :
               identical_cases[p] = <<table[j].test_case_type, table[k].test_case_type>>)
              => _is_identical(table[j], table[k])

\* test_test_case_typ_infos: all its assertions hold.
test_test_case_typ_infos(enum, table) ==
    /\ \A k \in 1..Len(table) : table[k].key = table[k].test_case_type
    /\ [k \in 1..Len(table) |-> table[k].key] = [k \in 1..Len(enum) |-> enum[k].name]
    /\ [k \in 1..Len(enum) |-> k] = [k \in 1..Len(enum) |-> enum[k].value]
    /\ \A j, k \in 1..Len(identical_cases_flat) :
          j # k => identical_cases_flat[j] # identical_cases_flat[k]
    /\ \A j \in 1..Len(identical_cases) :
          /\ ValueOf(enum, identical_cases[j][1]) < ValueOf(enum, identical_cases[j][2])
          /\ \A k \in (j + 1)..Len(identical_cases) :
                ValueOf(enum, identical_cases[j][1]) < ValueOf(enum, identical_cases[k][1])
    /\ \A j \in 1..Len(identical_cases) :
          LET a == InfoOf(table, identical_cases[j][1])
              b == InfoOf(table, identical_cases[j][2])
          IN  IF a.deprecated_alias_for = <<>>
              THEN b.deprecated_alias_for = <<identical_cases[j][1]>>
              ELSE /\ b.deprecated_alias_for = <<>>
                   /\ a.deprecated_alias_for = <<identical_cases[j][2]>>
    /\ \A k \in 1..Len(table) :
          IndexOf(identical_cases_flat, table[k].test_case_type) = 0
              => table[k].deprecated_alias_for = <<>>
    /\ \A j \in 1..Len(table) : \A k \in (j + 1)..Len(table) :
          (\E p \in 1..Len(identical_cases) :
               identical_cases[p] = <<table[j].test_case_type, table[k].test_case_type>>)
              <=> _is_identical(table[j], table[k])
    /\ \A k \in 1..Len(table) : table[k].test_case_type = enum[k].name

\* The test runs on the enum and the table.
RunTest ==
    /\ infos_ok = <<>>
    /\ infos_ok' = <<test_test_case_typ_infos(infos.enum, infos.table)>>
    /\ UNCHANGED infos
    /\ UNCHANGED <<instVars, descrVars, resolveVars, walkVars, parseVars,
                   pureVars, kubeVars,
                   runVars, clientVars, tcpVars>>

\* An enum and a table on which the test has not run yet.
InitInfoTest ==
    /\ plugins = {}
    /\ connection_mode = "CLUSTER_IP"
    /\ exec_persistent = FALSE
    /\ InitInstance
    /\ config_tft = <<[test_cases |-> <<1>>, connections |-> <<1>>]>>
    /\ d_args = <<0 - 1, 0 - 1, 0 - 1>>
    /\ d_err = "ok"
    /\ descr = RootDescriptor
    /\ infos \in InfoInputs(Tables(AliasMarks))
    /\ infos_ok = <<>>
    /\ InitResolve /\ InitWalk /\ InitParse /\ InitPure /\ InitKube
    /\ InitRun /\ InitClient /\ InitTcp

NextInfos == RunTest

SpecInfos == InitInfoTest /\ [][NextInfos]_vars

\* ---------------------------------------------------------- kubeconfigs
\* TestConfig.KUBECONFIG_SINGLE, KUBECONFIG_CX, KUBECONFIG_TENANT and
\* KUBECONFIG_INFRA: the default kubeconfig files.
KUBECONFIG_SINGLE == <<"/", "root", "kubeconfig.nicmodecluster">>
KUBECONFIG_CX == <<"/", "root", "kubeconfig.smartniccluster">>
KUBECONFIG_TENANT == <<"/", "root", "kubeconfig.tenantcluster">>
KUBECONFIG_INFRA == <<"/", "root", "kubeconfig.infracluster">>

\* The working directory and the directory of the configuration file.
cwddir == <<"/", "cwd">>
configdir == <<"/", "etc", "tft">>

\* common.path_norm: a relative path is taken from cwd; a missing path stays
\* missing.
path_norm(p, cwd) ==
    IF p = <<>> THEN <<>>
    ELSE IF p[1][1] = "/" THEN p
    ELSE <<cwd \o p[1]>>

\* A kubeconfig and a kubeconfig_infra a source can give, each missing, an
\* absolute path or a relative one.
GivenPaths(src, file) == {<<>>, <<<<"/", src, file>>>>, <<<<src, file>>>>}
GivenPairs(src) ==
    [kubeconfig : GivenPaths(src, "k"), kubeconfig_infra : GivenPaths(src, "i")]

\* What the run finds: the command-line flags, the environment, the
\* kubeconfig keys of the configuration file, the default files that exist,
\* the clusters whose kubeconfig gives no client, and the evaluator
\* configuration file.
KubeInputs ==
    [args : {p \in GivenPairs("cli") : p.kubeconfig_infra = <<>> \/ p.kubeconfig_infra[1][1] = "/"},
     environ : {p \in GivenPairs("env") : p.kubeconfig_infra = <<>> \/ p.kubeconfig_infra[1][1] = "/"},
     config : {p \in GivenPairs("conf") : p.kubeconfig_infra = <<>> \/ p.kubeconfig_infra[1][1] = "/"},
     files : {{}, {KUBECONFIG_SINGLE}, {KUBECONFIG_CX, KUBECONFIG_TENANT},
              {KUBECONFIG_TENANT}, {KUBECONFIG_TENANT, KUBECONFIG_INFRA}},
     bad : SUBSET {"tenant", "infra"},
     evaluator_config : {"none", "exists", "missing"}]

\* tft.option_get_kubeconfigs: the pair and the source it is from.
option_get_kubeconfigs(args, environ) ==
    IF args.kubeconfig # <<>> \/ args.kubeconfig_infra # <<>>
    THEN IF args.kubeconfig = <<>>
         THEN Raised("ValueError")
         ELSE Returned([pair |-> <<args.kubeconfig, args.kubeconfig_infra>>,
                        source |-> "command-line"])
    ELSE IF environ.kubeconfig # <<>> \/ environ.kubeconfig_infra # <<>>
    THEN IF environ.kubeconfig = <<>>
         THEN Raised("ValueError")
         ELSE Returned([pair |-> <<environ.kubeconfig, environ.kubeconfig_infra>>,
                        source |-> "environment variable"])
    ELSE Returned([pair |-> <<>>, source |-> "none"])

\* ConfConfig.parse on the kubeconfig keys: a kubeconfig_infra needs a
\* kubeconfig.
ConfConfig_kubeconfigs(config) ==
    IF config.kubeconfig_infra # <<>> /\ config.kubeconfig = <<>>
    THEN Err("missing parameter when kubeconfig_infra is given", "kubeconfig")
    ELSE Ok(config)

\* Mutant: the configuration's kubeconfig comes before the kubeconfigs that
\* are passed in.
kubeconfig_pair_ConfigFirst(kubeconfigs, config) ==
    LET given == IF config.kubeconfig # <<>> THEN <<>> ELSE kubeconfigs
        kubconfig_pair ==
            IF given # <<>> THEN given
            ELSE <<config.kubeconfig, config.kubeconfig_infra>>
        kubeconfigs_cwd == IF given # <<>> THEN cwddir ELSE configdir
    IN  IF kubconfig_pair[1] # <<>>
        THEN <<<<path_norm(kubconfig_pair[1], kubeconfigs_cwd),
                 path_norm(kubconfig_pair[2], kubeconfigs_cwd)>>>>
        ELSE <<>>

\* Mutant: a kubeconfig_infra that is not passed in is taken from the
\* configuration.
kubeconfig_pair_FillsInfra(kubeconfigs, config) ==
    LET kubconfig_pair ==
            IF kubeconfigs # <<>>
            THEN <<kubeconfigs[1],
                   IF kubeconfigs[2] # <<>> THEN kubeconfigs[2]
                   ELSE config.kubeconfig_infra>>
            ELSE <<config.kubeconfig, config.kubeconfig_infra>>
        kubeconfigs_cwd == IF kubeconfigs # <<>> THEN cwddir ELSE configdir
    IN  IF kubconfig_pair[1] # <<>>
        THEN <<<<path_norm(kubconfig_pair[1], kubeconfigs_cwd),
                 path_norm(kubconfig_pair[2], kubeconfigs_cwd)>>>>
        ELSE <<>>

\* TestConfig.__init__: self._kubeconfig_pair, from the kubeconfigs that are
\* passed in or else from the configuration.
kubeconfig_pair(kubeconfigs, config) ==
    LET kubconfig_pair ==
            IF kubeconfigs # <<>> THEN kubeconfigs
            ELSE <<config.kubeconfig, config.kubeconfig_infra>>
        kubeconfigs_cwd == IF kubeconfigs # <<>> THEN cwddir ELSE configdir
    IN  IF kubconfig_pair[1] # <<>>
        THEN <<<<path_norm(kubconfig_pair[1], kubeconfigs_cwd),
                 path_norm(kubconfig_pair[2], kubeconfigs_cwd)>>>>
        ELSE <<>>

\* TestConfig._detect_kubeconfigs
_detect_kubeconfigs(files, cwd) ==
    IF KUBECONFIG_SINGLE \in files
    THEN Returned(<<path_norm(<<KUBECONFIG_SINGLE>>, cwd), <<>>>>)
    ELSE IF KUBECONFIG_CX \in files
    THEN Returned(<<path_norm(<<KUBECONFIG_CX>>, cwd), <<>>>>)
    ELSE IF KUBECONFIG_TENANT \in files
    THEN IF KUBECONFIG_INFRA \in files
         THEN Returned(<<path_norm(<<KUBECONFIG_TENANT>>, cwd),
                         path_norm(<<KUBECONFIG_INFRA>>, cwd)>>)
         ELSE Raised("RuntimeError")
    ELSE Raised("RuntimeError")

\* TestConfig.mode
mode(pair) == IF pair[2] = <<>> THEN "SINGLE" ELSE "DPU"

\* The TestConfig that main constructs from the kubeconfigs of the command
\* line or of the environment and from the configuration file; source is
\* where its pair is from.
TestConfig(input) ==
    LET kubeconfigs == option_get_kubeconfigs(input.args, input.environ)
        config == ConfConfig_kubeconfigs(input.config)
        pair == kubeconfig_pair(kubeconfigs.val[1].pair, input.config)
    IN  IF kubeconfigs.err # ""
        THEN [at |-> "failed", err |-> kubeconfigs.err, _kubeconfig_pair |-> <<>>,
              source |-> "none", msg_source |-> <<>>]
        ELSE IF config.err # ""
        THEN [at |-> "failed", err |-> "ValueError: invalid configuration",
              _kubeconfig_pair |-> <<>>, source |-> "none", msg_source |-> <<>>]
        ELSE [at |-> "constructed", err |-> "", _kubeconfig_pair |-> pair,
              source |-> IF kubeconfigs.val[1].pair # <<>>
                         THEN kubeconfigs.val[1].source
                         ELSE IF pair # <<>> THEN "config" ELSE "none",
              msg_source |-> <<>>]

\* tft.main up to the new TestConfig.
main ==
    /\ kube_out = <<>>
    /\ kube_out' = TestConfig(kube_in)
    /\ UNCHANGED kube_in
    /\ UNCHANGED <<instVars, descrVars, resolveVars, walkVars, parseVars,
                   pureVars, infoVars, runVars, clientVars, tcpVars>>

\* TestConfig._get_kubeconfigs, as system_check calls it first: the pair,
\* detected from the default files when none was given.
_get_kubeconfigs ==
    /\ kube_out # <<>>
    /\ kube_out.at = "constructed"
    /\ LET detected == _detect_kubeconfigs(kube_in.files, cwddir)
       IN  kube_out' =
               IF kube_out._kubeconfig_pair # <<>>
               THEN [kube_out EXCEPT !.at = "effective"]
               ELSE IF detected.err # ""
               THEN [kube_out EXCEPT !.at = "failed", !.err = detected.err]
               ELSE [kube_out EXCEPT !.at = "effective",
                                     !._kubeconfig_pair = detected.val,
                                     !.source = "autodetected"]
    /\ UNCHANGED kube_in
    /\ UNCHANGED <<instVars, descrVars, resolveVars, walkVars, parseVars,
                   pureVars, infoVars, runVars, clientVars, tcpVars>>

\* TestConfig._system_check_kubeconfig: the source its message names, ""
\* if the cluster's client is there or no client is needed.
_system_check_kubeconfig(tenant, pair, config, bad) ==
    LET kubeconfig == IF tenant THEN pair[1] ELSE pair[2]
        config_name == IF tenant THEN "kubeconfig" ELSE "kubeconfig_infra"
        config_value == IF tenant THEN config.kubeconfig ELSE config.kubeconfig_infra
        fails == IF tenant THEN "tenant" \in bad ELSE "infra" \in bad
    IN  IF kubeconfig = <<>> \/ ~fails THEN <<>>
        ELSE IF config_value # <<>>
        THEN <<"key .", config_name>>
        ELSE <<"autodetected ", config_name>>

\* TestConfig.system_check: the tenant's kubeconfig, the infra kubeconfig,
\* then the evaluator configuration.
system_check ==
    /\ kube_out # <<>>
    /\ kube_out.at = "effective"
    /\ LET pair == kube_out._kubeconfig_pair[1]
           tenant == _system_check_kubeconfig(TRUE, pair, kube_in.config, kube_in.bad)
           infra == _system_check_kubeconfig(FALSE, pair, kube_in.config, kube_in.bad)
       IN  kube_out' =
               IF tenant # <<>>
               THEN [kube_out EXCEPT !.at = "failed", !.err = "ValueError",
                                     !.msg_source = tenant]
               ELSE IF infra # <<>>
               THEN [kube_out EXCEPT !.at = "failed", !.err = "ValueError",
                                     !.msg_source = infra]
               ELSE IF kube_in.evaluator_config = "missing"
               THEN [kube_out EXCEPT !.at = "failed", !.err = "ValueError"]
               ELSE [kube_out EXCEPT !.at = "checked"]
    /\ UNCHANGED kube_in
    /\ UNCHANGED <<instVars, descrVars, resolveVars, walkVars, parseVars,
                   pureVars, infoVars, runVars, clientVars, tcpVars>>

\* A run that has not looked for its kubeconfigs yet.
InitKubeconfigs ==
    /\ plugins = {}
    /\ connection_mode = "CLUSTER_IP"
    /\ exec_persistent = FALSE
    /\ InitInstance
    /\ config_tft = <<[test_cases |-> <<1>>, connections |-> <<1>>]>>
    /\ d_args = <<0 - 1, 0 - 1, 0 - 1>>
    /\ d_err = "ok"
    /\ descr = RootDescriptor
    /\ kube_in \in KubeInputs
    /\ kube_out = <<>>
    /\ InitResolve /\ InitWalk /\ InitParse /\ InitPure /\ InitInfos
    /\ InitRun /\ InitClient /\ InitTcp

NextKube == main \/ _get_kubeconfigs \/ system_check

SpecKube == InitKubeconfigs /\ [][NextKube]_vars

\* ------------------------------------------------------------------ main
\* print_results.EXIT_CODE_VALIDATION
EXIT_CODE_VALIDATION == 1

\* The eval_success of the flows one test group can give.
FlowLists == UNION {[1..n -> BOOLEAN] : n \in 0..MaxFlows}

\* --check, and for every test group of the configuration the flows that
\* its test_run gives.
RunInputs ==
    [check : BOOLEAN,
     flows : UNION {[1..n -> FlowLists] : n \in 1..MaxTests}]

\* The kubeconfigs of the runs: from the configuration file or detected,
\* with and without a kubeconfig_infra alone in the file, a default file
\* and a client for the tenant cluster.
RunKubeInputs ==
    {k \in KubeInputs :
        /\ k.args = [kubeconfig |-> <<>>, kubeconfig_infra |-> <<>>]
        /\ k.environ = [kubeconfig |-> <<>>, kubeconfig_infra |-> <<>>]
        /\ k.config.kubeconfig \in {<<>>, <<<<"/", "conf", "k">>>>}
        /\ k.files \in {{}, {KUBECONFIG_SINGLE}}
        /\ k.bad \in {{}, {"tenant"}}
        /\ k.evaluator_config = "none"}

\* TftResults.group_by_success: the passing and the failing flows.
group_by_success(tft_results) ==
    <<SelectSeq(tft_results.flows, LAMBDA ok : ok),
      SelectSeq(tft_results.flows, LAMBDA ok : ~ok)>>

\* print_results.process_results
process_results(tft_results) == group_by_success(tft_results)[2] = <<>>

\* Mutant: the loop ends at the first results with a failing flow.
process_results_all_ShortCircuit(tft_results_lst) ==
    LET first == IF \E i \in 1..Len(tft_results_lst) : ~process_results(tft_results_lst[i])
                 THEN CHOOSE i \in 1..Len(tft_results_lst) :
                          /\ ~process_results(tft_results_lst[i])
                          /\ \A j \in 1..(i - 1) : process_results(tft_results_lst[j])
                 ELSE Len(tft_results_lst)
        processed == SubSeq(tft_results_lst, 1, first)
        failed == SelectSeq(processed, LAMBDA r : ~process_results(r))
    IN  [success |-> failed = <<>>,
         processed |-> [i \in 1..Len(processed) |-> processed[i].filename],
         failed_files |-> [i \in 1..Len(failed) |-> failed[i].filename]]

\* print_results.process_results_all: whether no results have a failing
\* flow, the results it has processed and the files it reports as failed.
process_results_all(tft_results_lst) ==
    LET failed == SelectSeq(tft_results_lst, LAMBDA r : ~process_results(r))
    IN  [success |-> failed = <<>>,
         processed |-> [i \in 1..Len(tft_results_lst) |-> tft_results_lst[i].filename],
         failed_files |-> [i \in 1..Len(failed) |-> failed[i].filename]]

\* Mutant: the test groups run as soon as the TestConfig has its
\* kubeconfigs.
MayRun_BeforeCheck(config) == config # <<>> /\ config.at \in {"effective", "checked"}

\* main runs the test groups after tc.system_check() has returned.
MayRun(config) == config # <<>> /\ config.at = "checked"

\* main: tft.test_run on the next test group of describe_all_tft.
test_run ==
    /\ MayRun(kube_out)
    /\ run_out.exit = <<>>
    /\ Len(run_out.ran) < Len(run_in.flows)
    /\ LET tft_idx == Len(run_out.ran)
       IN  run_out' =
               [run_out EXCEPT
                   !.ran = Append(@, tft_idx),
                   !.tft_results_lst =
                       Append(@, [filename |-> tft_idx,
                                  flows |-> run_in.flows[tft_idx + 1]])]
    /\ UNCHANGED <<run_in, kubeVars>>
    /\ UNCHANGED <<instVars, descrVars, resolveVars, walkVars, parseVars,
                   pureVars, infoVars, clientVars, tcpVars>>

\* main after the last test group: the results are processed with --check,
\* and main returns.
main_return ==
    /\ MayRun(kube_out)
    /\ run_out.exit = <<>>
    /\ Len(run_out.ran) = Len(run_in.flows)
    /\ LET all == process_results_all(run_out.tft_results_lst)
       IN  run_out' =
               IF run_in.check
               THEN [run_out EXCEPT
                        !.processed = all.processed,
                        !.failed_files = all.failed_files,
                        !.exit = IF ~all.success THEN <<EXIT_CODE_VALIDATION>>
                                 ELSE <<0>>]
               ELSE [run_out EXCEPT !.exit = <<0>>]
    /\ UNCHANGED <<run_in, kubeVars>>
    /\ UNCHANGED <<instVars, descrVars, resolveVars, walkVars, parseVars,
                   pureVars, infoVars, clientVars, tcpVars>>

\* main has parsed its arguments.
InitMain ==
    /\ plugins = {}
    /\ connection_mode = "CLUSTER_IP"
    /\ exec_persistent = FALSE
    /\ InitInstance
    /\ config_tft = <<[test_cases |-> <<1>>, connections |-> <<1>>]>>
    /\ d_args = <<0 - 1, 0 - 1, 0 - 1>>
    /\ d_err = "ok"
    /\ descr = RootDescriptor
    /\ kube_in \in RunKubeInputs
    /\ kube_out = <<>>
    /\ run_in \in RunInputs
    /\ run_out = [ran |-> <<>>, tft_results_lst |-> <<>>, processed |-> <<>>,
                  failed_files |-> <<>>, exit |-> <<>>]
    /\ InitResolve /\ InitWalk /\ InitParse /\ InitPure /\ InitInfos
    /\ InitClient /\ InitTcp

NextMain == main \/ _get_kubeconfigs \/ system_check \/ test_run \/ main_return

SpecMain == InitMain /\ [][NextMain]_vars

\* ------------------------------------------- simple TCP server and client
\* The instants of time.monotonic() that the runs tell apart, in seconds
\* since global_start_time.
Instants == {0, 30, 60, 90, 120}

\* --duration and --num-clients as given; the client takes no --num-clients.
TcpInputs ==
    [server : {TRUE}, duration : {0, 30, 90}, num_clients : {0 - 1, 0, 1, 2}]
    \cup [server : {FALSE}, duration : {0, 30, 90}, num_clients : {1}]

\* sys.exit(status) after the message, at the blocking point.
Quit(p, status, message, at) ==
    [p EXCEPT !.pc = "exit", !.status = status, !.msg = message, !.at = at]

\* socket_timeout before the yield: quits when the duration has expired,
\* else the call at the blocking point begins.
socket_timeout(p, dur, at) ==
    IF dur > 0 /\ (0 + dur) - p.now <= 0
    THEN Quit(p, 0, "duration expired", at)
    ELSE [p EXCEPT !.pc = at]

\* The socket's timeout, set by socket_timeout, has run out.
TimedOut(p, dur) == dur > 0 /\ p.now >= 0 + dur

\* Mutant: sleep_timeout quits with 0 whatever exit_code is.
sleep_timeout_ExitZero(dur, now, exit_code) ==
    IF dur <= 0 THEN <<>>
    ELSE IF (0 + dur) - now > 0 THEN <<>>
    ELSE <<0>>

\* sleep_timeout after its sleep: <<>> if it returns True, else the status
\* it quits with.
sleep_timeout(dur, now, exit_code) ==
    IF dur <= 0 THEN <<>>
    ELSE IF (0 + dur) - now > 0 THEN <<>>
    ELSE IF exit_code = <<>> THEN <<0>> ELSE exit_code

\* Mutant: the server quits one client too late.
ClientsReached_OffByOne(num_clients, client_count) ==
    num_clients > 0 /\ client_count > num_clients

\* run_server: the number of clients is reached.
ClientsReached(num_clients, client_count) ==
    num_clients > 0 /\ client_count >= num_clients

\* time.monotonic() moves on to the next instant.
Tick ==
    /\ tcp # <<>>
    /\ tcp.pc # "exit"
    /\ \E t \in Instants :
          /\ t > tcp.now
          /\ \A u \in Instants : u > tcp.now => t <= u
          /\ tcp' = [tcp EXCEPT !.now = t]
    /\ UNCHANGED tcp_in
    /\ UNCHANGED <<instVars, descrVars, resolveVars, walkVars, parseVars,
                   pureVars, infoVars, kubeVars, runVars, clientVars>>

\* run_server at the head of its loop: quits when the clients are reached,
\* else goes to accept.
server_loop ==
    /\ tcp # <<>> /\ tcp_in.server /\ tcp.pc = "loop"
    /\ tcp' = IF ClientsReached(tcp_in.num_clients, tcp.client_count)
              THEN Quit(tcp, 0, "number of clients reached", "loop")
              ELSE socket_timeout(tcp, tcp_in.duration, "accept")
    /\ UNCHANGED tcp_in
    /\ UNCHANGED <<instVars, descrVars, resolveVars, walkVars, parseVars,
                   pureVars, infoVars, kubeVars, runVars, clientVars>>

\* s.accept() times out or returns a connection.
server_accept ==
    /\ tcp # <<>> /\ tcp_in.server /\ tcp.pc = "accept"
    /\ IF TimedOut(tcp, tcp_in.duration)
       THEN tcp' = Quit(tcp, 0, "duration expired", "accept")
       ELSE /\ tcp.client_count < MaxAccepts
            /\ tcp' = socket_timeout([tcp EXCEPT !.client_count = @ + 1],
                                     tcp_in.duration, "recv")
    /\ UNCHANGED tcp_in
    /\ UNCHANGED <<instVars, descrVars, resolveVars, walkVars, parseVars,
                   pureVars, infoVars, kubeVars, runVars, clientVars>>

\* conn.recv(): every exception, the timeout too, gives no data, and
\* without data the connection is closed.
server_recv ==
    /\ tcp # <<>> /\ tcp_in.server /\ tcp.pc = "recv"
    /\ IF TimedOut(tcp, tcp_in.duration)
       THEN tcp' = [tcp EXCEPT !.pc = "loop"]
       ELSE \E data \in BOOLEAN :
               tcp' = IF data THEN socket_timeout(tcp, tcp_in.duration, "send")
                      ELSE [tcp EXCEPT !.pc = "loop"]
    /\ UNCHANGED tcp_in
    /\ UNCHANGED <<instVars, descrVars, resolveVars, walkVars, parseVars,
                   pureVars, infoVars, kubeVars, runVars, clientVars>>

\* conn.sendall(data) times out, is reset or returns.
server_send ==
    /\ tcp # <<>> /\ tcp_in.server /\ tcp.pc = "send"
    /\ IF TimedOut(tcp, tcp_in.duration)
       THEN tcp' = Quit(tcp, 0, "duration expired", "send")
       ELSE \E reset \in BOOLEAN :
               tcp' = [tcp EXCEPT !.pc = IF reset THEN "loop" ELSE "sleep"]
    /\ UNCHANGED tcp_in
    /\ UNCHANGED <<instVars, descrVars, resolveVars, walkVars, parseVars,
                   pureVars, infoVars, kubeVars, runVars, clientVars>>

\* sleep_timeout between two messages, of the server and of the client.
sleep ==
    /\ tcp # <<>> /\ tcp.pc = "sleep"
    /\ LET quit == sleep_timeout(tcp_in.duration, tcp.now, <<>>)
       IN  tcp' = IF quit # <<>>
                  THEN Quit(tcp, quit[1], "duration expired", "sleep")
                  ELSE socket_timeout(tcp, tcp_in.duration,
                                      IF tcp_in.server THEN "recv" ELSE "send")
    /\ UNCHANGED tcp_in
    /\ UNCHANGED <<instVars, descrVars, resolveVars, walkVars, parseVars,
                   pureVars, infoVars, kubeVars, runVars, clientVars>>

\* s.connect() times out, is refused or returns.
client_connect ==
    /\ tcp # <<>> /\ ~tcp_in.server /\ tcp.pc = "connect"
    /\ IF TimedOut(tcp, tcp_in.duration)
       THEN tcp' = Quit(tcp, 0, "duration expired", "connect")
       ELSE \E refused \in BOOLEAN :
               tcp' = IF refused THEN [tcp EXCEPT !.pc = "retry"]
                      ELSE socket_timeout(tcp, tcp_in.duration, "send")
    /\ UNCHANGED tcp_in
    /\ UNCHANGED <<instVars, descrVars, resolveVars, walkVars, parseVars,
                   pureVars, infoVars, kubeVars, runVars, clientVars>>

\* sleep_timeout after a refused connection: at most min(duration, 60.0),
\* with exit_code=1.
client_retry ==
    /\ tcp # <<>> /\ ~tcp_in.server /\ tcp.pc = "retry"
    /\ LET d == IF tcp_in.duration < 60 THEN tcp_in.duration ELSE 60
           quit == sleep_timeout(d, tcp.now, <<1>>)
       IN  tcp' = IF quit # <<>>
                  THEN Quit(tcp, quit[1], "duration expired", "retry")
                  ELSE socket_timeout(tcp, tcp_in.duration, "connect")
    /\ UNCHANGED tcp_in
    /\ UNCHANGED <<instVars, descrVars, resolveVars, walkVars, parseVars,
                   pureVars, infoVars, kubeVars, runVars, clientVars>>

\* s.sendall(snd_data) times out or returns.
client_send ==
    /\ tcp # <<>> /\ ~tcp_in.server /\ tcp.pc = "send"
    /\ tcp' = IF TimedOut(tcp, tcp_in.duration)
              THEN Quit(tcp, 0, "duration expired", "send")
              ELSE [tcp EXCEPT !.pc = "recv"]
    /\ UNCHANGED tcp_in
    /\ UNCHANGED <<instVars, descrVars, resolveVars, walkVars, parseVars,
                   pureVars, infoVars, kubeVars, runVars, clientVars>>

\* The client reads the echo with timeouts of its own: the echo, other
\* data, no data within 1 and 20 more seconds, or the end of the stream.
client_recv ==
    /\ tcp # <<>> /\ ~tcp_in.server /\ tcp.pc = "recv"
    /\ \E r \in {"echo", "other", "timeout", "eof"} :
          tcp' = CASE r = "echo" -> [tcp EXCEPT !.pc = "sleep"]
                   [] r = "eof" -> Quit(tcp, 1, "AssertionError", "recv")
                   [] OTHER -> Quit(tcp, 1, "unexpected response", "recv")
    /\ UNCHANGED tcp_in
    /\ UNCHANGED <<instVars, descrVars, resolveVars, walkVars, parseVars,
                   pureVars, infoVars, kubeVars, runVars, clientVars>>

\* The server has bound its socket, or the client has made its socket and
\* is about to connect.
InitTcpRun ==
    /\ plugins = {}
    /\ connection_mode = "CLUSTER_IP"
    /\ exec_persistent = FALSE
    /\ InitInstance
    /\ config_tft = <<[test_cases |-> <<1>>, connections |-> <<1>>]>>
    /\ d_args = <<0 - 1, 0 - 1, 0 - 1>>
    /\ d_err = "ok"
    /\ descr = RootDescriptor
    /\ tcp_in \in TcpInputs
    /\ LET p == [pc |-> "loop", now |-> 0, client_count |-> 0,
                 status |-> 0, msg |-> "", at |-> ""]
       IN  tcp = IF tcp_in.server THEN p
                 ELSE socket_timeout(p, tcp_in.duration, "connect")
    /\ InitResolve /\ InitWalk /\ InitParse /\ InitPure /\ InitInfos
    /\ InitKube /\ InitRun /\ InitClient

NextTcp ==
    \/ Tick
    \/ server_loop \/ server_accept \/ server_recv \/ server_send
    \/ sleep
    \/ client_connect \/ client_retry \/ client_send \/ client_recv

SpecTcp == InitTcpRun /\ [][NextTcp]_vars

\* ------------------------------------------------- the TestConfig's clients
\* Threads that call into one TestConfig, one call each.
MaxThreads == 2
Threads == 1..MaxThreads

\* The calls: client(tenant=True), client(tenant=False), and a kubeconfig
\* accessor (kubeconfig, kubeconfig_infra: both are _get_kubeconfigs()).
ClientOps == {"client_tenant", "client_infra", "kubeconfig"}

\* What the TestConfig is constructed from: the kubeconfig keys of the
\* configuration file, the default files that exist, and the clusters whose
\* kubeconfig gives no client.
ClientInputs ==
    {k \in KubeInputs :
        /\ k.args = [kubeconfig |-> <<>>, kubeconfig_infra |-> <<>>]
        /\ k.environ = [kubeconfig |-> <<>>, kubeconfig_infra |-> <<>>]
        /\ k.config \in {[kubeconfig |-> <<>>, kubeconfig_infra |-> <<>>],
                         [kubeconfig |-> <<<<"/", "conf", "k">>>>,
                          kubeconfig_infra |-> <<>>],
                         [kubeconfig |-> <<<<"/", "conf", "k">>>>,
                          kubeconfig_infra |-> <<<<"/", "conf", "i">>>>]}
        /\ k.files \in {{}, {KUBECONFIG_SINGLE}, {KUBECONFIG_TENANT},
                        {KUBECONFIG_TENANT, KUBECONFIG_INFRA}}
        /\ k.evaluator_config = "none"}

\* TestConfig.__init__: the lock, no clients, and the pair of the
\* configuration. detections and constructed count the calls of
\* _detect_kubeconfigs and the K8sClient objects made, per cluster.
NewTestConfig(input) ==
    [_kubeconfig_pair |-> TestConfig(input)._kubeconfig_pair,
     _lock |-> <<>>,
     _client_tenant |-> <<>>,
     _client_infra |-> <<>>,
     files |-> input.files,
     bad |-> input.bad,
     detections |-> 0,
     constructed |-> [tenant |-> 0, infra |-> 0]]

\* The n-th K8sClient object made for a cluster.
K8sClient(cluster, n) == [cluster |-> cluster, nr |-> n]

\* Mutant: the lock does not exclude a second thread.
CanAcquire_Always(lock) == TRUE

\* threading.Lock: `with self._lock` is entered when no thread holds it.
CanAcquire(lock) == lock = <<>>

\* TestConfig._get_kubeconfigs_with_lock: the pair, detected and stored when
\* the TestConfig has none; a detection that raises stores nothing.
_get_kubeconfigs_with_lock(c) ==
    IF c._kubeconfig_pair # <<>>
    THEN [tc |-> c, r |-> Returned(c._kubeconfig_pair[1])]
    ELSE LET detected == _detect_kubeconfigs(c.files, cwddir)
         IN  [tc |-> [c EXCEPT !.detections = @ + 1,
                               !._kubeconfig_pair =
                                   IF detected.err = "" THEN detected.val ELSE <<>>],
              r |-> detected]

\* A call ends: its result, or the exception it raised; the lock is released.
Leave(t, c, r) ==
    /\ tconf' = [c EXCEPT !._lock = <<>>]
    /\ callers' = [callers EXCEPT ![t] = [@ EXCEPT !.pc = "done", !.r = r]]

\* `with self._lock:` of _get_kubeconfigs and of client.
lock_acquire(t) ==
    /\ callers[t].pc = "call"
    /\ CanAcquire(tconf._lock)
    /\ tconf' = [tconf EXCEPT !._lock = <<t>>]
    /\ callers' = [callers EXCEPT ![t] = [@ EXCEPT !.pc = "locked"]]
    /\ UNCHANGED <<instVars, descrVars, resolveVars, walkVars, parseVars,
                   pureVars, infoVars, kubeVars, runVars, tcpVars>>

\* TestConfig._get_kubeconfigs, under the lock.
get_kubeconfigs(t) ==
    /\ callers[t].pc = "locked"
    /\ callers[t].op = "kubeconfig"
    /\ LET g == _get_kubeconfigs_with_lock(tconf)
       IN  Leave(t, g.tc, g.r)
    /\ UNCHANGED <<instVars, descrVars, resolveVars, walkVars, parseVars,
                   pureVars, infoVars, kubeVars, runVars, tcpVars>>

\* TestConfig.client: kubeconfig, kubeconfig_infra =
\* self._get_kubeconfigs_with_lock().
client_kubeconfigs(t) ==
    /\ callers[t].pc = "locked"
    /\ callers[t].op # "kubeconfig"
    /\ LET g == _get_kubeconfigs_with_lock(tconf)
       IN  IF g.r.err # ""
           THEN Leave(t, g.tc, g.r)
           ELSE /\ tconf' = g.tc
                /\ callers' = [callers EXCEPT
                                  ![t] = [@ EXCEPT !.pc = "have_pair",
                                                   !.pair = g.r.val]]
    /\ UNCHANGED <<instVars, descrVars, resolveVars, walkVars, parseVars,
                   pureVars, infoVars, kubeVars, runVars, tcpVars>>

\* TestConfig.client: the cluster's client is read; without an infra
\* kubeconfig client(tenant=False) raises.
client_read(t) ==
    /\ callers[t].pc = "have_pair"
    /\ LET tenant == callers[t].op = "client_tenant"
       IN  IF ~tenant /\ callers[t].pair[1][2] = <<>>
           THEN Leave(t, tconf, Raised("RuntimeError"))
           ELSE /\ callers' = [callers EXCEPT
                                  ![t] = [@ EXCEPT
                                             !.pc = "have_client",
                                             !.client = IF tenant
                                                        THEN tconf._client_tenant
                                                        ELSE tconf._client_infra]]
                /\ UNCHANGED tconf
    /\ UNCHANGED <<instVars, descrVars, resolveVars, walkVars, parseVars,
                   pureVars, infoVars, kubeVars, runVars, tcpVars>>

\* TestConfig.client: a K8sClient is made and stored if none was read (the
\* constructor raises for a kubeconfig that gives no client); return client.
client_return(t) ==
    /\ callers[t].pc = "have_client"
    /\ LET tenant == callers[t].op = "client_tenant"
           cluster == IF tenant THEN "tenant" ELSE "infra"
           made == K8sClient(cluster, tconf.constructed[cluster] + 1)
       IN  IF callers[t].client # <<>>
           THEN Leave(t, tconf, Returned(callers[t].client[1]))
           ELSE IF cluster \in tconf.bad
           THEN Leave(t, tconf, Raised("Exception"))
           ELSE Leave(t,
                      IF tenant
                      THEN [tconf EXCEPT !._client_tenant = <<made>>,
                                         !.constructed.tenant = @ + 1]
                      ELSE [tconf EXCEPT !._client_infra = <<made>>,
                                         !.constructed.infra = @ + 1],
                      Returned(made))
    /\ UNCHANGED <<instVars, descrVars, resolveVars, walkVars, parseVars,
                   pureVars, infoVars, kubeVars, runVars, tcpVars>>

\* A constructed TestConfig and the calls the threads are about to make.
InitClients ==
    /\ plugins = {}
    /\ connection_mode = "CLUSTER_IP"
    /\ exec_persistent = FALSE
    /\ InitInstance
    /\ config_tft = <<[test_cases |-> <<1>>, connections |-> <<1>>]>>
    /\ d_args = <<0, 0, 0>>
    /\ d_err = "ok"
    /\ descr = [tft_idx |-> 0, test_cases_idx |-> 0, connections_idx |-> 0]
    /\ InitResolve /\ InitWalk /\ InitParse /\ InitPure /\ InitInfos /\ InitKube
    /\ InitRun /\ InitTcp
    /\ \E input \in ClientInputs :
          /\ TestConfig(input).at = "constructed"
          /\ tconf = NewTestConfig(input)
    /\ callers \in [Threads -> [op : ClientOps, pc : {"call"}, pair : {<<>>},
                                client : {<<>>}, r : {<<>>}]]

NextClients ==
    \/ \E t \in Threads : lock_acquire(t)
    \/ \E t \in Threads : get_kubeconfigs(t)
    \/ \E t \in Threads : client_kubeconfigs(t)
    \/ \E t \in Threads : client_read(t)
    \/ \E t \in Threads : client_return(t)

SpecClients == InitClients /\ [][NextClients]_vars

\* ------------------------------------------------------------- claims
\* The task's remote command starts in this step.
CallStarts(t) ==
    /\ pc[t] \notin {"run_oc", "run_oc_exec"}
    /\ pc'[t] \in {"run_oc", "run_oc_exec"}

\* Every thread that waits on the start barrier has arrived at it.
AllArrived == \A t \in Tasks : pc[t] # "init"

\* C1 as stated: no participant of the test instance, the server included,
\* has started its remote command while some participant has not yet
\* reached the start barrier.
C1_AllStartAfterBarrier ==
    (srv_cmds # <<>> \/ \E t \in Tasks : ncalls[t] > 0) => AllArrived

\* C1 amended: the remote command of the client, of a measure_cpu task and
\* of a measure_power task starts only after every thread that waits on
\* the barrier has arrived at it. (The server's command is started by
\* setup, before the barrier, and is not bound by it.)
C1_WaitersStartAfterBarrier ==
    \A t \in Tasks : ncalls[t] > 0 => AllArrived

\* C1 witness: a measure_power task is in its remote command, next to the
\* client's, with all three waiting threads arrived.
C1_Witness ==
    /\ pc["power_server"] = "run_oc_exec"
    /\ pc[ClientTask] = "run_oc"
    /\ AllArrived

\* C2: the client sets the finished flag at most once, exactly once by the
\* time its thread has finished, only after its remote command has
\* returned, and the flag is never cleared.
C2_FinishedSetOnce ==
    /\ [](/\ setCount <= 1
          /\ finished <=> setCount = 1
          /\ finished => client_r # <<>>
          /\ pc[ClientTask] \in {"init", "barrier", "run_oc"} => ~finished
          /\ pc[ClientTask] = "done" => setCount = 1)
    /\ [][finished => finished']_vars

\* C2 witness: the client's command failed, the client set the flag and
\* finished.
C2_Witness ==
    /\ pc[ClientTask] = "done"
    /\ finished
    /\ setCount = 1
    /\ ~client_r.success

\* A measure_power worker is past its loop.
PastLoop(p) == pc[p] \in {"aggregate", "done", "raised"}

\* C3: a measure_power worker that evaluates its loop condition with the
\* flag set leaves the loop and starts no iteration afterwards, and its
\* PluginOutput is produced only after the loop has ended.
C3_LoopEndsOnFlag ==
    [][\A p \in PowerTasks :
          /\ (pc[p] = "check" /\ finished) => pc'[p] \in {"check", "aggregate"}
          /\ PastLoop(p) => PastLoop(p)'
          /\ power_out'[p] # power_out[p] => pc[p] = "aggregate"]_vars

\* C3 witness: a worker has left its loop after two iterations and
\* produced its output.
C3_Witness ==
    /\ finished
    /\ pc["power_client"] = "done"
    /\ iteration["power_client"] = 2
    /\ power_out["power_client"] # <<>>

\* C4 as stated: no remote call of a measure_power worker starts after the
\* client has set the finished flag.
C4_NoCallAfterFinished == \A p \in PowerTasks : lateCalls[p] = 0

\* C4 amended: at most one remote call of a measure_power worker starts
\* after the client has set the finished flag (the call of the iteration
\* whose loop check came before the flag was set).
C4_AtMostOneCallAfterFinished == \A p \in PowerTasks : lateCalls[p] <= 1

\* C4 witness: a worker started one call after the flag was set and has
\* then left its loop.
C4_Witness ==
    /\ lateCalls["power_server"] = 1
    /\ pc["power_server"] = "done"

\* C5 as stated: once the duration has elapsed, no worker starts a further
\* remote call.
C5_NoCallAfterDeadline ==
    [][\A t \in Tasks : (CallStarts(t) /\ ncalls[t] > 0) => ~expired]_vars

\* C5 amended: no worker enforces a deadline. The client and a measure_cpu
\* task issue one remote call and finish when it returns; a measure_power
\* worker leaves its loop only at a loop check that finds the finished
\* flag set, whether or not the duration has elapsed.
C5_NoDeadline ==
    /\ [](\A t \in {ClientTask} \cup CpuTasks : ncalls[t] <= 1)
    /\ [][\A p \in PowerTasks :
             (~PastLoop(p) /\ PastLoop(p)') => finished]_vars

\* C5 witness: the duration has elapsed, the flag is not set, and a
\* measure_power worker is in a remote call of its second iteration.
C5_Witness ==
    /\ expired
    /\ ~finished
    /\ pc["power_server"] = "run_oc_exec"
    /\ iteration["power_server"] = 1

\* C6: a measure_cpu task that got its command's Result has returned a
\* PluginOutput with the command and result["cmd"] attached; its success is
\* TRUE exactly if the command succeeded, the output parsed and the record
\* has percent_idle; otherwise it carries a non-empty message.
C6_CpuOutcome ==
    \A c \in CpuTasks :
        /\ (cpu_r[c] # <<>>) = (pc[c] = "done")
        /\ (pc[c] = "done") = (cpu_out[c] # <<>>)
        /\ cpu_out[c] # <<>> =>
              /\ cpu_out[c].success
                     = (cpu_r[c].success /\ cpu_r[c].shape = "idle")
              /\ cpu_out[c].success
                     = ("percent_idle" \in cpu_out[c].result)
              /\ ~cpu_out[c].success => cpu_out[c].msg \notin {NoneVal, ""}
              /\ "cmd" \in cpu_out[c].result
              /\ cpu_out[c].command = "mpstat"

\* C6 witness: one task's command succeeded with a record lacking
\* percent_idle and its output is a failure; the sibling task succeeded.
C6_Witness ==
    /\ cpu_r["cpu_server"] = [success |-> TRUE, shape |-> "no_idle"]
    /\ ~cpu_out["cpu_server"].success
    /\ pc["cpu_client"] = "done"
    /\ cpu_out["cpu_client"].success

\* C7 as stated: no task starts a remote command after one of its remote
\* commands has returned a failure.
C7_NoCommandAfterFailure ==
    [][\A t \in Tasks : CallStarts(t) => ~cmdFailed[t]]_vars

\* The remote commands of a measure_power worker: one per iteration begun.
PowerCalls(p) == iteration[p] + (IF pc[p] = "run_oc_exec" THEN 1 ELSE 0)

\* C7 amended: the client and a measure_cpu task issue at most one remote
\* command per run, whether it fails or not; a measure_power worker issues
\* exactly one remote command per loop iteration (and goes on iterating
\* after a failed one).
C7_OneCommandPerIteration ==
    /\ \A t \in {ClientTask} \cup CpuTasks : ncalls[t] <= 1
    /\ \A p \in PowerTasks :
          ncalls[p] = IF PowerCalls(p) < MaxCalls THEN PowerCalls(p)
                      ELSE MaxCalls

\* C7 witness: a measure_cpu task's only command failed and the task is
\* done.
C7_Witness ==
    /\ pc["cpu_client"] = "done"
    /\ cmdFailed["cpu_client"]
    /\ ncalls["cpu_client"] = 1

\* C8 as stated: a measure_power worker whose loop has ended returns a
\* PluginOutput, also when the loop ran zero iterations.
C8_PowerAlwaysReturns ==
    \A p \in PowerTasks :
        /\ pc[p] # "raised"
        /\ pc[p] = "done" => power_out[p] # <<>>

\* The failure condition C9 states for ConfigDescriptor(t, tc, cn).
C9_MustFail(tft, t, tc, cn) ==
    \/ cn >= 0 /\ t < 0
    \/ tc >= 0 /\ t < 0
    \/ t < -1 \/ tc < -1 \/ cn < -1
    \/ t >= Len(tft)
    \/ t \in 0..(Len(tft) - 1) /\ tc >= Len(tft[t + 1].test_cases)
    \/ t \in 0..(Len(tft) - 1) /\ cn >= Len(tft[t + 1].connections)

\* C9: constructing a ConfigDescriptor fails exactly if a test case or
\* connection index is set without a test group index, an index is below
\* -1, or an index is not smaller than the size of its collection.
C9_ConstructionFails ==
    /\ (d_err # "ok") = C9_MustFail(config_tft, d_args[1], d_args[2], d_args[3])
    /\ (d_err = "ok") = (descr # <<>>)

\* C9 witness: a construction failed only because the connection index
\* equals the number of connections of the selected test group.
C9_Witness ==
    /\ d_err = "connections_idx out or range"
    /\ d_args[1] = 1
    /\ d_args[2] = 0
    /\ d_args[3] = Len(config_tft[2].connections)

\* C10 as stated: a constructed descriptor has its test case index set
\* only with the test group index, and its connection index set only with
\* both the test group index and the test case index.
C10_LinearNesting ==
    descr # <<>> =>
        /\ descr.test_cases_idx >= 0 => descr.tft_idx >= 0
        /\ descr.connections_idx >= 0 =>
              (descr.tft_idx >= 0 /\ descr.test_cases_idx >= 0)

\* C10 amended: a constructed descriptor has its test case index set only
\* with the test group index, and its connection index set only with the
\* test group index (the test case index may be unset).
C10_RequiresTestGroup ==
    descr # <<>> =>
        /\ descr.test_cases_idx >= 0 => descr.tft_idx >= 0
        /\ descr.connections_idx >= 0 => descr.tft_idx >= 0

\* C10 witness: a descriptor with the connection index set and the test
\* case index unset.
C10_Witness ==
    /\ descr # <<>>
    /\ descr.tft_idx = 1
    /\ descr.test_cases_idx = 0 - 1
    /\ descr.connections_idx = 1

\* C11 Each resolver raises exactly when an index it needs is unset, and
\* otherwise returns the element at the selected indices; get_server and
\* get_client return the connection's node whenever a connection is selected.
C11_ResolversSucceed ==
    resolved # <<>> =>
        LET d == resolved.of
            g == PyIndex(config_tft, d.tft_idx)
        IN  /\ resolved.get_tft.err # "" <=> d.tft_idx = 0 - 1
            /\ d.tft_idx >= 0 => resolved.get_tft.val = <<g>>
            /\ resolved.get_test_case.err # "" <=> d.test_cases_idx = 0 - 1
            /\ d.test_cases_idx >= 0 =>
                  resolved.get_test_case.val
                      = <<PyIndex(g.test_cases, d.test_cases_idx)>>
            /\ resolved.get_connection.err # "" <=> d.connections_idx = 0 - 1
            /\ d.connections_idx >= 0 =>
                  /\ resolved.get_connection.val
                        = <<PyIndex(g.connections, d.connections_idx)>>
                  /\ resolved.get_server.err = ""
                  /\ resolved.get_client.err = ""
            /\ d.connections_idx = 0 - 1 =>
                  /\ resolved.get_server.err # ""
                  /\ resolved.get_client.err # ""

\* Index triple a comes before b in ascending order, level by level.
TripleBefore(a, b) ==
    \/ a[1] < b[1]
    \/ a[1] = b[1] /\ a[2] < b[2]
    \/ a[1] = b[1] /\ a[2] = b[2] /\ a[3] < b[3]

\* The (test group, test case, connection) index triples of the config.
AllTriples ==
    {t \in (0..(MaxSize - 1)) \X (0..(MaxSize - 1)) \X (0..(MaxSize - 1)) :
        /\ t[1] < Len(config_tft)
        /\ t[2] < Len(config_tft[t[1] + 1].test_cases)
        /\ t[3] < Len(config_tft[t[1] + 1].connections)}

\* The triples in s, as a set.
Elems(s) == {s[k] : k \in 1..Len(s)}

\* The iteration is over.
IterDone == gen = <<>> /\ yielded # <<>>

\* C12 The nested iteration yields triples of the config in ascending order
\* without repetition, all of them once it is over; every generator passes
\* on the indices its descriptor has selected, every yielded descriptor
\* passes the construction check, and a restarted iteration yields the same
\* sequence as the first.
C12_IterationYieldsAll ==
    /\ d_err = "ok"
    /\ Elems(yielded) \subseteq AllTriples
    /\ \A j, k \in 1..Len(yielded) : j < k => TripleBefore(yielded[j], yielded[k])
    /\ IterDone => Elems(yielded) = AllTriples
    /\ Len(gen) >= 2 =>
          gen[2].self = [tft_idx |-> gen[1].i - 1,
                         test_cases_idx |-> gen[1].self.test_cases_idx,
                         connections_idx |-> gen[1].self.connections_idx]
    /\ Len(gen) >= 3 =>
          gen[3].self = [tft_idx |-> gen[2].self.tft_idx,
                         test_cases_idx |-> gen[2].i - 1,
                         connections_idx |-> gen[2].self.connections_idx]
    /\ firstRun # <<>> =>
          /\ Elems(firstRun[1]) = AllTriples
          /\ Len(yielded) <= Len(firstRun[1])
          /\ yielded = SubSeq(firstRun[1], 1, Len(yielded))

\* A restarted iteration over a configuration with more than one test
\* group, test case and connection is over.
C12_Witness ==
    /\ firstRun # <<>>
    /\ IterDone
    /\ Len(config_tft) > 1
    /\ Len(yielded) > 4

\* The test group documents of the parsed document.
TftDocs == Get(doc, "tft", <<>>)

\* The duration the k-th test group's document gives, 0 if none.
GivenDuration(k) == Get(TftDocs[k], "duration", 0)

\* C13 A parsed test group has duration 3600 if its document gives 0 or no
\* duration and the given duration if that is positive, so its duration is
\* positive; a document with a negative duration is rejected.
C13_DurationNormalized ==
    parsed # <<>> =>
        /\ parsed.err = "" =>
              \A k \in 1..Len(TftDocs) :
                  /\ GivenDuration(k) = 0 =>
                        parsed.val[1].tft[k].duration = DefaultDuration
                  /\ GivenDuration(k) > 0 =>
                        parsed.val[1].tft[k].duration = GivenDuration(k)
                  /\ parsed.val[1].tft[k].duration > 0
        /\ (\E k \in 1..Len(TftDocs) : GivenDuration(k) < 0) => parsed.err # ""

\* A document that gives duration 0 has been parsed.
C13_Witness ==
    /\ parsed # <<>> /\ parsed.err = ""
    /\ Has(TftDocs[1], "duration") /\ TftDocs[1].duration = 0
    /\ parsed.val[1].tft[1].duration = DefaultDuration

\* C14 Every connection of a parsed configuration has exactly one server
\* and exactly one client.
C14_OneServerOneClient ==
    (parsed # <<>> /\ parsed.err = "") =>
        \A k \in 1..Len(parsed.val[1].tft) :
            \A j \in 1..Len(parsed.val[1].tft[k].connections) :
                /\ Len(parsed.val[1].tft[k].connections[j].server) = 1
                /\ Len(parsed.val[1].tft[k].connections[j].client) = 1

\* The parse gets as far as the connections of the only test group.
ConnectionsReached ==
    /\ Len(TftDocs) = 1
    /\ GivenDuration(1) >= 0
    /\ Get(TftDocs[1], "connections", <<>>) # <<>>

\* The connection documents of the only test group.
ConnDocs == Get(TftDocs[1], "connections", <<>>)

\* Some server or client node of the connection document gives args.
GivesArgs(cd) ==
    \/ \E k \in 1..Len(Get(cd, "server", <<>>)) : Has(cd.server[k], "args")
    \/ \E k \in 1..Len(Get(cd, "client", <<>>)) : Has(cd.client[k], "args")

\* The connection document gives more than one server or client.
ManyNodes(cd) ==
    Len(Get(cd, "server", <<>>)) > 1 \/ Len(Get(cd, "client", <<>>)) > 1

C16_RoundTrip ==
    /\ reparsed # <<>> => reparsed = parsed
    /\ reser # <<>> => reser = ser

\* A configuration has gone round whose document leaves out the duration
\* and gives its server a command line.
C16_Witness ==
    /\ reser # <<>>
    /\ ~Has(TftDocs[1], "duration")
    /\ \E s \in 1..Len(Get(ConnDocs[1], "server", <<>>)) :
          /\ Has(ConnDocs[1].server[s], "args")
          /\ Has(ConnDocs[1].server[s].args, "str")
          /\ parsed.val[1].tft[1].connections[1].server[s].args = <<<<"-x", "-y">>>>

\* C17 eval_binary_opt_in gives both True for two unset arguments, an
\* explicit argument unchanged, and for an unset argument the negation of
\* the explicit other one, which is what test_eval_binary_opt_in asserts.
C17_OptInTable ==
    opt_out # <<>> =>
        LET a == opt_in[1]
            b == opt_in[2]
            r == opt_out[1]
        IN  /\ (a = <<>> /\ b = <<>>) => r = <<TRUE, TRUE>>
            /\ a # <<>> => r[1] = a[1]
            /\ b # <<>> => r[2] = b[1]
            /\ (a # <<>> /\ b = <<>>) => r[2] = ~a[1]
            /\ (a = <<>> /\ b # <<>>) => r[1] = ~b[1]
            /\ <<a, b, r>> \in test_eval_binary_opt_in

\* The flags have been evaluated for an explicit False and an unset value.
C17_Witness ==
    /\ opt_in = <<<<FALSE>>, <<>>>>
    /\ opt_out = <<<<FALSE, TRUE>>>>

\* The raw result lacks a field calculate_gbps expects for the test type.
LacksFields(test_type, result) ==
    \/ ~Has(result, "end")
    \/ test_type = "IPERF_TCP" /\ ~Has(result.end, "sum_sent")
    \/ test_type = "IPERF_TCP" /\ ~Has(result.end, "sum_received")
    \/ test_type = "IPERF_UDP" /\ ~Has(result.end, "sum")

\* C19 calculate_gbps always returns a Bitrate, and Bitrate NA for a raw
\* result with an error field or without the expected fields.
C19_NeverFails ==
    gbps_out # <<>> =>
        /\ gbps_out.err = ""
        /\ (\/ Has(gbps_in.result, "error")
            \/ LacksFields(gbps_in.test_type, gbps_in.result))
              => gbps_out.val = <<BitrateNA>>

\* The two names form one of the alias pairs, in either order.
AliasPair(a, b) ==
    \E p \in 1..Len(identical_cases) :
        identical_cases[p] = <<a, b>> \/ identical_cases[p] = <<b, a>>

NoFlags ==
    kube_in.args.kubeconfig = <<>> /\ kube_in.args.kubeconfig_infra = <<>>

\* C20 Whenever the configuration file has a kubeconfig key and no
\* command-line flag is given, the effective kubeconfig of the TestConfig
\* is the configuration file's value, whatever the environment variables
\* TFT_KUBECONFIG and TFT_KUBECONFIG_INFRA are.
C20_ConfigBeforeEnviron ==
    (/\ kube_out # <<>>
     /\ kube_out._kubeconfig_pair # <<>>
     /\ kube_in.config.kubeconfig # <<>>
     /\ NoFlags)
        => kube_out._kubeconfig_pair[1][1]
               = path_norm(kube_in.config.kubeconfig, configdir)

\* C20 (amended) With no command-line flag, the kubeconfig of a TestConfig
\* is the value of TFT_KUBECONFIG when that variable is set, and the
\* configuration file's kubeconfig only when neither variable is set.
C20_EnvironBeforeConfig ==
    (/\ kube_out # <<>>
     /\ kube_out._kubeconfig_pair # <<>>
     /\ kube_out.source # "autodetected"
     /\ NoFlags)
        => IF kube_in.environ.kubeconfig # <<>>
           THEN kube_out._kubeconfig_pair[1][1]
                    = path_norm(kube_in.environ.kubeconfig, cwddir)
           ELSE /\ kube_in.environ.kubeconfig_infra = <<>>
                /\ kube_out._kubeconfig_pair[1][1]
                       = path_norm(kube_in.config.kubeconfig, configdir)

\* The variable and the configuration file both give a kubeconfig, no flag
\* does, and the TestConfig has its pair.
C20_Witness ==
    /\ kube_out # <<>>
    /\ kube_out.at = "effective"
    /\ NoFlags
    /\ kube_in.environ.kubeconfig # <<>>
    /\ kube_in.config.kubeconfig # <<>>

\* The source a path of the model is from: the directory it is in.
SourceTag(p) ==
    LET dir == p[1][Len(p[1]) - 1]
    IN  CASE dir = "cli" -> "command-line"
          [] dir = "env" -> "environment variable"
          [] dir = "conf" -> "config"
          [] dir = "root" -> "autodetected"

\* The source that main consults gives a kubeconfig_infra and no
\* kubeconfig.
InfraWithoutTenant ==
    \/ kube_in.args.kubeconfig_infra # <<>> /\ kube_in.args.kubeconfig = <<>>
    \/ /\ NoFlags
       /\ kube_in.environ.kubeconfig_infra # <<>>
       /\ kube_in.environ.kubeconfig = <<>>
    \/ kube_in.config.kubeconfig_infra # <<>> /\ kube_in.config.kubeconfig = <<>>

NamedSource(msg_source) ==
    IF msg_source[1] = "key ." THEN "config" ELSE "autodetected"

\* C22 When the system check fails on a kubeconfig, its message names the
\* source that kubeconfig was taken from.
C22_MessageNamesSource ==
    (kube_out # <<>> /\ kube_out.msg_source # <<>>)
        => NamedSource(kube_out.msg_source) = kube_out.source

\* C23 When the configuration or the system check is refused, no test
\* group has run; the test groups run only after the system check, one
\* after another in the order of the configuration.
C23_ErrorsBeforeWork ==
    run_out # <<>> =>
        /\ (kube_out # <<>> /\ kube_out.at = "failed") => run_out.ran = <<>>
        /\ run_out.ran # <<>> => (kube_out # <<>> /\ kube_out.at = "checked")
        /\ run_out.ran = [i \in 1..Len(run_out.ran) |-> i - 1]
        /\ Len(run_out.ran) <= Len(run_in.flows)

\* The system check has refused the kubeconfig of a run of two test groups.
C23_Witness ==
    /\ run_out # <<>>
    /\ kube_out # <<>>
    /\ kube_out.at = "failed"
    /\ kube_out.msg_source # <<>>
    /\ Len(run_in.flows) = 2

\* The test group's flows have a failing one.
HasFailingFlow(flows) == \E i \in 1..Len(flows) : ~flows[i]

\* C24 main returns after all test groups have run; with --check it
\* returns 0 exactly if no test group has a failing flow and 1 otherwise,
\* after process_results_all has processed every results collection and
\* has listed the failing ones in input order; without --check it returns 0.
C24_ExitCode ==
    (run_out # <<>> /\ run_out.exit # <<>>) =>
        LET n == Len(run_in.flows)
            failing == {i \in 1..n : HasFailingFlow(run_in.flows[i])}
        IN  /\ Len(run_out.ran) = n
            /\ run_out.exit =
                  IF run_in.check /\ failing # {} THEN <<1>> ELSE <<0>>
            /\ run_in.check =>
                  /\ run_out.processed = [i \in 1..n |-> i - 1]
                  /\ {run_out.failed_files[i] + 1 :
                         i \in 1..Len(run_out.failed_files)} = failing
                  /\ \A i, j \in 1..Len(run_out.failed_files) :
                         i < j => run_out.failed_files[i] < run_out.failed_files[j]

\* With --check main has returned 1 for two test groups of which the first
\* has a failing flow and the second has none.
C24_Witness ==
    /\ run_out # <<>>
    /\ run_out.exit = <<1>>
    /\ run_in.check
    /\ Len(run_in.flows) = 2
    /\ HasFailingFlow(run_in.flows[1])
    /\ ~HasFailingFlow(run_in.flows[2])

\* C25 With a positive duration, a process of the simple TCP server or
\* client that quits because the duration expired, at whatever blocking
\* point, quits with exit status 0.
C25_ExpiryIsNormal ==
    (tcp # <<>> /\ tcp.pc = "exit" /\ tcp.msg = "duration expired")
        => tcp.status = 0

\* What a step of a process at a blocking point does once the duration has
\* expired there: it quits with the status after reporting 'duration
\* expired' (or time alone moves on).
ExpiryQuits(at, status) ==
    (tcp # <<>> /\ tcp.pc = at /\ TimedOut(tcp, tcp_in.duration))
        => \/ tcp'.pc = at
           \/ /\ tcp'.pc = "exit"
              /\ tcp'.status = status
              /\ tcp'.msg = "duration expired"
              /\ tcp'.at = at

\* C25 (amended) With a positive duration, expiry of the duration at accept,
\* connect, send or the sleep between two messages makes the process quit
\* with exit status 0 after reporting 'duration expired'; expiry during the
\* client's wait to retry a refused connection makes it quit with exit
\* status 1 after the same report; a timeout of the server's receive is
\* taken as a closed connection, and the server never quits with a failure
\* status; the client quits with a failure status only from that wait or
\* from its receive, which has timeouts of its own.
C25_ExpiryStatus ==
    /\ [](tcp # <<>> /\ tcp.pc = "exit" =>
            /\ tcp.msg = "duration expired" =>
                  /\ tcp_in.duration > 0
                  /\ tcp.status = IF tcp.at = "retry" THEN 1 ELSE 0
            /\ tcp_in.server => tcp.status = 0
            /\ tcp.status # 0 => tcp.at \in {"retry", "recv"})
    /\ [][/\ ExpiryQuits("accept", 0)
          /\ ExpiryQuits("connect", 0)
          /\ ExpiryQuits("send", 0)
          /\ ExpiryQuits("sleep", 0)
          /\ ExpiryQuits("retry", 1)
          /\ (tcp # <<>> /\ tcp_in.server /\ tcp.pc = "recv"
                 /\ TimedOut(tcp, tcp_in.duration))
                => tcp'.pc \in {"recv", "loop"}]_vars

\* The client has quit with status 1 because the duration expired while it
\* waited to retry a refused connection.
C25_Witness ==
    /\ tcp # <<>>
    /\ tcp.pc = "exit"
    /\ tcp.at = "retry"
    /\ tcp.msg = "duration expired"
    /\ tcp.status = 1
    /\ tcp_in.duration = 30

\* C26 The server's count of accepted connections grows by one per accept
\* and only there, never passes a positive num_clients, and the server
\* quits with status 0 at the head of its loop once the count has reached
\* num_clients and the connection is closed; with num_clients <= 0 it quits
\* only because the duration expired.
C26_AcceptBound ==
    /\ []((tcp # <<>> /\ tcp_in.server) =>
            /\ tcp_in.num_clients > 0 => tcp.client_count <= tcp_in.num_clients
            /\ tcp.pc = "exit" => tcp.status = 0
            /\ (tcp.pc = "exit" /\ tcp_in.num_clients <= 0)
                  => tcp.msg = "duration expired")
    /\ [][(tcp # <<>> /\ tcp_in.server) =>
            /\ \/ tcp'.client_count = tcp.client_count
               \/ /\ tcp'.client_count = tcp.client_count + 1
                  /\ tcp.pc = "accept"
            /\ (/\ tcp.pc = "loop"
                /\ tcp_in.num_clients > 0
                /\ tcp.client_count = tcp_in.num_clients)
                  => \/ tcp'.pc = "loop"
                     \/ /\ tcp'.pc = "exit"
                        /\ tcp'.status = 0
                        /\ tcp'.msg = "number of clients reached"]_vars

\* The server has quit after its second and last client.
C26_Witness ==
    /\ tcp # <<>>
    /\ tcp_in.server
    /\ tcp_in.num_clients = 2
    /\ tcp.client_count = 2
    /\ tcp.pc = "exit"
    /\ tcp.msg = "number of clients reached"

\* C27: a persistent server whose connection mode is not EXTERNAL_IP issues
\* no remote command, neither when run nor when cleaned up, and both calls
\* return the "Server is persistent." result; a server of such a mode that
\* is not persistent issues exactly one exec of the iperf server command
\* when run, and the kill command when cleaned up.
PersistentResult ==
    [out |-> "Server is persistent.", err |-> "", returncode |-> 0]

ServerCalls == IF srv_pc = "init" THEN 0 ELSE IF srv_pc = "started" THEN 1 ELSE 2

C27_PersistentServer ==
    connection_mode # "EXTERNAL_IP" =>
        IF exec_persistent
        THEN /\ srv_cmds = <<>>
             /\ srv_r = [k \in 1..ServerCalls |-> <<PersistentResult>>]
        ELSE /\ srv_cmds = SubSeq(<<[via |-> "run_oc", cmd |-> "exec -- iperf3 -s -p --one-off --json"],
                                    [via |-> "run_oc", cmd |-> "exec -t -- killall iperf3"]>>,
                                  1, ServerCalls)
             /\ srv_r = [k \in 1..ServerCalls |-> <<>>]

C27_Witness ==
    /\ connection_mode # "EXTERNAL_IP"
    /\ exec_persistent
    /\ srv_pc = "cleaned"
    /\ Len(srv_r) = 2

\* The model follows a measure_power loop for MaxIter iterations: a worker
\* that is at its loop condition after MaxIter iterations while the flag is
\* not set is not followed further.
IterationBound(p) == pc[p] = "check" /\ iteration[p] = MaxIter /\ ~finished

\* C28, first part: whenever the client's remote command returns, succeeded
\* or failed, the client sets the finished flag.
C28_ClientSetsFlag == (pc[ClientTask] = "set") ~> finished

\* C28, the loop: every measure_power worker eventually leaves its loop.
C28_LeavesLoop ==
    \A p \in PowerTasks :
        <>(pc[p] \in {"aggregate", "done", "raised"} \/ IterationBound(p))

\* C28 as stated: under fair scheduling, when every remote call returns and
\* all participants reach the barrier, every measure_power worker
\* eventually leaves its loop and returns.
C28_PowerWorkersReturn ==
    \A p \in PowerTasks : <>(pc[p] = "done" \/ IterationBound(p))

\* The calls of a cluster's client that have returned a client.
Got(op) == {t \in Threads : callers[t].op = op /\ callers[t].pc = "done"
                              /\ callers[t].r.err = ""}

\* At most one K8sClient is made per cluster, and the calls for a cluster
\* all return it.
OneClientPerCluster ==
    /\ tconf.constructed.tenant <= 1
    /\ tconf.constructed.infra <= 1
    /\ \A t \in Got("client_tenant") : <<callers[t].r.val[1]>> = tconf._client_tenant
    /\ \A t \in Got("client_infra") : <<callers[t].r.val[1]>> = tconf._client_infra

\* client(tenant=False) fails and makes no client when the pair has no
\* infra kubeconfig.
NoInfraNoClient ==
    (tconf._kubeconfig_pair # <<>> /\ tconf._kubeconfig_pair[1][2] = <<>>) =>
        /\ tconf._client_infra = <<>>
        /\ tconf.constructed.infra = 0
        /\ \A t \in Threads :
              (callers[t].op = "client_infra" /\ callers[t].pc = "done")
                  => callers[t].r.err = "RuntimeError"

\* Once resolved, the kubeconfig pair never changes.
PairIsStable ==
    tconf._kubeconfig_pair # <<>> => tconf'._kubeconfig_pair = tconf._kubeconfig_pair

\* C29 as stated: in every interleaving of client(tenant=...) and kubeconfig
\* accessor calls at most one K8sClient is made per cluster and every call
\* for a cluster returns it, kubeconfig autodetection is performed at most
\* once, the resolved pair never changes, and client(tenant=False) fails
\* without making a client when there is no infra kubeconfig.
C29_DetectedAtMostOnce ==
    /\ [](OneClientPerCluster /\ NoInfraNoClient /\ tconf.detections <= 1)
    /\ [][PairIsStable]_vars

\* C29 amended: as above, but autodetection is performed only while no pair
\* is resolved: it succeeds at most once, and a detection that raises
\* leaves the pair unresolved and is performed again by the next call.
C29_DetectedUntilResolved ==
    /\ [](/\ OneClientPerCluster
          /\ NoInfraNoClient
          /\ tconf.detections > 1 =>
                _detect_kubeconfigs(tconf.files, cwddir).err # ""
          /\ tconf.detections > 0 /\ tconf._kubeconfig_pair = <<>> =>
                /\ _detect_kubeconfigs(tconf.files, cwddir).err # ""
                /\ tconf.detections =
                      Cardinality({t \in Threads :
                                     callers[t].pc \notin {"call", "locked"}}))
    /\ [][PairIsStable /\ (tconf'.detections > tconf.detections
                              => tconf._kubeconfig_pair = <<>>)]_vars

\* C29 witness: two calls of client(tenant=True) have returned the one
\* tenant client, after one autodetection.
C29_Witness ==
    /\ Cardinality(Got("client_tenant")) = 2
    /\ tconf.detections = 1
    /\ tconf.constructed.tenant = 1

\* The message of a failing iteration whose result is r.
FailureMessage(r) ==
    IF ~r.success THEN "Failed running ipmitool command"
    ELSE "Failed to parse ipmitool output"

\* r is the result of a failing iteration: the command failed, or its
\* output has no power reading.
FailingResult(r) == ~r.success \/ _extract(r.out) = <<>>

\* What a measure_power worker holds, and returns, after its iterations.
StickyFailure(p) ==
    /\ success_result[p] <=> nfail[p] = 0
    /\ ~success_result[p] =>
          /\ failed_cmd[p] # <<>>
          /\ FailingResult(failed_cmd[p][1])
          /\ msg[p] = FailureMessage(failed_cmd[p][1])
    /\ success_result[p] => failed_cmd[p] = <<>> /\ msg[p] = NoneVal
    /\ total_pwr[p] >= iteration[p] - nfail[p]
    /\ total_pwr[p] <= (iteration[p] - nfail[p]) * MaxWatts
    /\ pc[p] = "done" =>
          /\ power_out[p] # <<>>
          /\ power_out[p][1].success = (nfail[p] = 0)
          /\ power_out[p][1].msg = msg[p]
          /\ power_out[p][1].failed_cmd = failed_cmd[p]
          /\ power_out[p][1].measure_power = <<total_pwr[p], ncalls[p]>>

\* What an iteration of a measure_power worker changes.
FirstWins(p) ==
    /\ nfail[p] >= 1 => msg'[p] = msg[p] /\ failed_cmd'[p] = failed_cmd[p]
    /\ (nfail[p] = 0 /\ nfail'[p] = 1) =>
          /\ failed_cmd'[p] # <<>>
          /\ cmdFailed'[p] = ~failed_cmd'[p][1].success
    /\ nfail'[p] > nfail[p] =>
          /\ total_pwr'[p] = total_pwr[p]
          /\ iteration'[p] = iteration[p] + 1

\* C30: failure of a measure_power worker is sticky and first-wins: after a
\* failing iteration (command failure, or no power reading in the output)
\* the PluginOutput has success=False with the message and failed_cmd of the
\* first failing iteration, which later iterations leave unchanged;
\* success=True if and only if every iteration gave a reading; a failing
\* iteration adds nothing to the total and counts in the divisor.
C30_StickyFirstFailure ==
    /\ [](\A p \in PowerTasks : StickyFailure(p))
    /\ [][\A p \in PowerTasks : FirstWins(p)]_vars

\* C30 witness: a worker has returned after two failing iterations, the
\* first a command failure and the second an output without a reading.
C30_Witness ==
    /\ pc["power_client"] = "done"
    /\ nfail["power_client"] = 2
    /\ ncalls["power_client"] = 2
    /\ cmdFailed["power_client"]
    /\ power_out["power_client"][1].msg = "Failed running ipmitool command"
    /\ ~power_out["power_client"][1].success

====
